---- MODULE Spec2Model ----
(***************************************************************************)
(* A model of the multi-engine analysis pipeline of sql-review-studio      *)
(* (backend/analyzer.go, backend/engine_analyzer.go, backend/main.go).      *)
(*                                                                         *)
(* A script is a sequence of runes.  A rune is written as a string: the    *)
(* characters the scanners look at (quotes, comment openers, terminators,  *)
(* white space, brackets) are one rune each; a run of letters the scanners *)
(* only copy (a keyword, an identifier) is written as one rune holding the *)
(* whole word, which the regular expressions read as a word.               *)
(***************************************************************************)
EXTENDS Integers, Sequences, FiniteSets, TLC

VARIABLES request, content, engine, options, result, pc, alwaysEnabledRules, forcedRules,
          response, history, segments, calls, clock, reports

vars ==
    <<request, content, engine, options, result, pc, alwaysEnabledRules, forcedRules, response,
      history, segments, calls, clock, reports>>

\* The variables of the callers that run side by side.
callVars == <<calls, clock, reports>>

(***************************************************************************)
(* Runes and the strings package                                           *)
(***************************************************************************)

\* U+FF1B, the full-width semicolon.
FullwidthSemicolon == "U+FF1B"

NoRune == "U+0000"

\* U+0060, the back quote.
Backquote == "U+0060"

\* unicode.IsSpace on the runes of the model.
IsSpace(ch) == ch \in {" ", "\t", "\n", "\r"}

\* Runes that are neither a letter, a digit nor an underscore (regexp \W).
Punctuation ==
    {" ", "\t", "\n", "\r", ";", FullwidthSemicolon, "'", "\"", Backquote, "\\", "-", "#",
     "/", "*", "(", ")", "{", "}", "[", "]", ",", "=", "%", "$", "$$", ".", NoRune}

\* A rune holding a word (regexp \w+).
IsWord(ch) == ch \notin Punctuation

RECURSIVE TrimLeft(_)
TrimLeft(s) ==
    IF s = <<>> THEN <<>>
    ELSE IF IsSpace(Head(s)) THEN TrimLeft(Tail(s)) ELSE s

RECURSIVE TrimRight(_)
TrimRight(s) ==
    IF s = <<>> THEN <<>>
    ELSE IF IsSpace(s[Len(s)]) THEN TrimRight(SubSeq(s, 1, Len(s) - 1)) ELSE s

\* strings.TrimSpace
TrimSpace(s) == TrimRight(TrimLeft(s))

\* strings.HasPrefix / strings.HasSuffix
HasPrefix(s, p) == Len(p) <= Len(s) /\ SubSeq(s, 1, Len(p)) = p

HasSuffix(s, p) == Len(p) <= Len(s) /\ SubSeq(s, Len(s) - Len(p) + 1, Len(s)) = p

\* strings.Contains
Contains(s, p) == \E i \in 1..(Len(s) - Len(p) + 1) : SubSeq(s, i, i + Len(p) - 1) = p

\* unicode.ToUpper on one rune; the words of the model are written in upper
\* case except the ones listed here.
UpperRune(ch) ==
    CASE ch = "delimiter" -> "DELIMITER"
      [] ch = "select" -> "SELECT"
      [] ch = "update" -> "UPDATE"
      [] ch = "create" -> "CREATE"
      [] ch = "where" -> "WHERE"
      [] ch = "like" -> "LIKE"
      [] ch = "t" -> "T"
      [] ch = "x" -> "X"
      [] OTHER -> ch

\* strings.ToUpper
ToUpper(s) == [i \in 1..Len(s) |-> UpperRune(s[i])]

\* unicode.ToLower on one rune, for the words of the model that are not
\* written in lower case.
LowerRune(ch) ==
    CASE ch = "updateMany" -> "updatemany"
      [] ch = "deleteMany" -> "deletemany"
      [] ch = "PG" -> "pg"
      [] ch = "Postgres" -> "postgres"
      [] ch = "MongoDB" -> "mongodb"
      [] ch = "MySQL" -> "mysql"
      [] ch = "POSTGRESQL" -> "postgresql"
      [] ch = "Mongo" -> "mongo"
      [] ch = "SELECT" -> "select"
      [] ch = "UPDATE" -> "update"
      [] ch = "SET" -> "set"
      [] ch = "FROM" -> "from"
      [] OTHER -> ch

\* strings.ToLower
ToLower(s) == [i \in 1..Len(s) |-> LowerRune(s[i])]

\* strings.Fields: the maximal runs of non-space runes.
RECURSIVE Fields(_)
Fields(s) ==
    LET t == TrimLeft(s)
        RECURSIVE wordEnd(_)
        wordEnd(k) == IF k < Len(t) /\ ~IsSpace(t[k + 1]) THEN wordEnd(k + 1) ELSE k
    IN IF t = <<>> THEN <<>>
       ELSE LET e == wordEnd(1)
            IN <<SubSeq(t, 1, e)>> \o Fields(SubSeq(t, e + 1, Len(t)))

\* strings.Join(items, "\n")
RECURSIVE JoinLines(_)
JoinLines(items) ==
    IF items = <<>> THEN <<>>
    ELSE IF Len(items) = 1 THEN items[1]
    ELSE items[1] \o <<"\n">> \o JoinLines(Tail(items))

\* The elements of a sequence that satisfy a test, in order.
RECURSIVE SelectSeqIdx(_, _, _)
SelectSeqIdx(s, Keep(_), i) ==
    IF i > Len(s) THEN <<>>
    ELSE (IF Keep(i) THEN <<s[i]>> ELSE <<>>) \o SelectSeqIdx(s, Keep, i + 1)

(***************************************************************************)
(* splitSQLStatements (analyzer.go)                                         *)
(***************************************************************************)

\* analyzer.go isFullwidthSemicolon
isFullwidthSemicolon(ch) == ch = FullwidthSemicolon

\* analyzer.go matchRunesAt (indices are 1-based here)
matchRunesAt(source, index, target) ==
    /\ Len(target) > 0
    /\ index + Len(target) - 1 <= Len(source)
    /\ \A k \in 1..Len(target) : source[index + k - 1] = target[k]

\* The number of backslashes that end just before index.
RECURSIVE BackslashRun(_, _)
BackslashRun(runes, index) ==
    IF index >= 1 /\ runes[index] = "\\" THEN 1 + BackslashRun(runes, index - 1) ELSE 0

isEscapedOnAnyBackslash(runes, index) == BackslashRun(runes, index - 1) >= 1

\* analyzer.go isEscapedByBackslash
isEscapedByBackslash(runes, index) == BackslashRun(runes, index - 1) % 2 = 1

\* A directive reader that compares the keyword byte for byte.
parseDelimiterDirectiveExactCase(line) ==
    LET parts == Fields(TrimSpace(line))
    IN IF Len(parts) < 2 THEN [ok |-> FALSE, delim |-> <<>>]
       ELSE IF parts[1] # <<"DELIMITER">> THEN [ok |-> FALSE, delim |-> <<>>]
       ELSE [ok |-> TRUE, delim |-> parts[2]]

\* analyzer.go parseDelimiterDirective: [ok, delim]
parseDelimiterDirective(line) ==
    LET parts == Fields(TrimSpace(line))
    IN IF Len(parts) < 2 THEN [ok |-> FALSE, delim |-> <<>>]
       ELSE IF ToUpper(parts[1]) # <<"DELIMITER">> THEN [ok |-> FALSE, delim |-> <<>>]
       ELSE [ok |-> TRUE, delim |-> parts[2]]

\* The index of the last rune of the line that starts at i (its "\n", or the
\* end of the script): strings.SplitAfter(content, "\n").
RECURSIVE LineEnd(_, _)
LineEnd(runes, i) ==
    IF i >= Len(runes) THEN Len(runes)
    ELSE IF runes[i] = "\n" THEN i ELSE LineEnd(runes, i + 1)

\* The scanner's variables before the first line.
SplitInit ==
    [items |-> <<>>, builder |-> <<>>, delimiter |-> <<";">>,
     inSingleQuote |-> FALSE, inDoubleQuote |-> FALSE, inBacktick |-> FALSE,
     inBlockComment |-> FALSE, inLineComment |-> FALSE, i |-> 1, cuts |-> <<>>]

InQuote(st) == st.inSingleQuote \/ st.inDoubleQuote \/ st.inBacktick

\* builder flushed into items at a terminator read at index i (cuts records
\* where the scanner ended a statement and with which rune).
SplitCut(st, i, ch) ==
    LET piece == TrimSpace(st.builder)
    IN [st EXCEPT !.items = IF piece # <<>> THEN Append(@, piece) ELSE @,
                  !.builder = <<>>,
                  !.cuts = Append(@, [at |-> i, fullwidth |-> isFullwidthSemicolon(ch)])]

\* The start of a line: inLineComment is reset, and a DELIMITER directive read
\* outside quotes and block comments replaces the delimiter and skips the line.
SplitLineStart(st, runes) ==
    LET i == st.i
        s0 == [st EXCEPT !.inLineComment = FALSE]
        dir == parseDelimiterDirective(SubSeq(runes, i, LineEnd(runes, i)))
    IN IF ~InQuote(st) /\ ~st.inBlockComment /\ dir.ok
       THEN [s0 EXCEPT !.delimiter = dir.delim, !.i = LineEnd(runes, i) + 1]
       ELSE s0

\* One pass of the inner loop of splitSQLStatements on runes[st.i].
SplitRune(st, runes) ==
    LET i == st.i
        ch == runes[i]
        next == IF i + 1 <= Len(runes) /\ ch # "\n" THEN runes[i + 1] ELSE NoRune
        single == IF ch = "'" /\ ~st.inDoubleQuote /\ ~st.inBacktick
                     /\ ~isEscapedByBackslash(runes, i)
                  THEN ~st.inSingleQuote ELSE st.inSingleQuote
        double == IF ch = "\"" /\ ~st.inSingleQuote /\ ~st.inBacktick
                     /\ ~isEscapedByBackslash(runes, i)
                  THEN ~st.inDoubleQuote ELSE st.inDoubleQuote
        back == IF ch = Backquote /\ ~st.inSingleQuote /\ ~st.inDoubleQuote
                THEN ~st.inBacktick ELSE st.inBacktick
        q == [st EXCEPT !.inSingleQuote = single, !.inDoubleQuote = double,
                        !.inBacktick = back]
    IN IF st.inLineComment
       THEN IF ch = "\n"
            THEN [st EXCEPT !.inLineComment = FALSE, !.builder = Append(@, ch), !.i = i + 1]
            ELSE [st EXCEPT !.i = i + 1]
       ELSE IF st.inBlockComment
       THEN IF ch = "*" /\ next = "/"
            THEN [st EXCEPT !.inBlockComment = FALSE, !.i = i + 2]
            ELSE [st EXCEPT !.i = i + 1]
       ELSE IF ~InQuote(st) /\ ch = "-" /\ next = "-"
       THEN [st EXCEPT !.inLineComment = TRUE, !.i = i + 2]
       ELSE IF ~InQuote(st) /\ ch = "#"
       THEN [st EXCEPT !.inLineComment = TRUE, !.i = i + 1]
       ELSE IF ~InQuote(st) /\ ch = "/" /\ next = "*"
       THEN [st EXCEPT !.inBlockComment = TRUE, !.i = i + 2]
       ELSE IF ~InQuote(q) /\ Len(q.delimiter) > 0 /\ matchRunesAt(runes, i, q.delimiter)
       THEN [SplitCut(q, i, ch) EXCEPT !.i = i + Len(q.delimiter)]
       ELSE IF ~InQuote(q) /\ Len(q.delimiter) > 0 /\ q.delimiter = <<";">>
               /\ isFullwidthSemicolon(ch)
       THEN [SplitCut(q, i, ch) EXCEPT !.i = i + 1]
       ELSE [q EXCEPT !.builder = Append(@, ch), !.i = i + 1]

\* One step of the scan: the line-start work when st.i starts a line, then
\* one rune.
SplitStep(st, runes) ==
    LET atLineStart == st.i = 1 \/ runes[st.i - 1] = "\n"
        s1 == IF atLineStart THEN SplitLineStart(st, runes) ELSE st
    IN IF s1.i # st.i THEN s1 ELSE SplitRune(s1, runes)

RECURSIVE SplitScan(_, _)
SplitScan(st, runes) ==
    IF st.i > Len(runes) THEN st ELSE SplitScan(SplitStep(st, runes), runes)

\* The scanner's variables after the last line.
SplitFinal(runes) == SplitScan(SplitInit, runes)

\* analyzer.go splitSQLStatements
splitSQLStatements(runes) ==
    LET st == SplitFinal(runes)
        tail == TrimSpace(st.builder)
    IN IF tail # <<>> THEN Append(st.items, tail) ELSE st.items

(***************************************************************************)
(* stripCommentsAndStrings (analyzer.go)                                    *)
(***************************************************************************)

StripInit ==
    [builder |-> <<>>, inSingleQuote |-> FALSE, inDoubleQuote |-> FALSE,
     inBacktick |-> FALSE, inLineComment |-> FALSE, inBlockComment |-> FALSE, i |-> 1]

\* What the scanner writes for a rune read inside a string.
Blanked(ch) == IF ch = "\n" THEN "\n" ELSE " "

\* One pass of the loop of stripCommentsAndStrings on runes[st.i].
StripRune(st, runes) ==
    LET i == st.i
        ch == runes[i]
        next == IF i + 1 <= Len(runes) THEN runes[i + 1] ELSE NoRune
    IN IF st.inLineComment
       THEN IF ch = "\n"
            THEN [st EXCEPT !.inLineComment = FALSE, !.builder = Append(@, "\n"), !.i = i + 1]
            ELSE [st EXCEPT !.i = i + 1]
       ELSE IF st.inBlockComment
       THEN IF ch = "*" /\ next = "/"
            THEN [st EXCEPT !.inBlockComment = FALSE, !.i = i + 2]
            ELSE IF ch = "\n"
            THEN [st EXCEPT !.builder = Append(@, "\n"), !.i = i + 1]
            ELSE [st EXCEPT !.i = i + 1]
       ELSE IF ~InQuote(st) /\ ch = "-" /\ next = "-"
       THEN [st EXCEPT !.inLineComment = TRUE, !.i = i + 2]
       ELSE IF ~InQuote(st) /\ ch = "#"
       THEN [st EXCEPT !.inLineComment = TRUE, !.i = i + 1]
       ELSE IF ~InQuote(st) /\ ch = "/" /\ next = "*"
       THEN [st EXCEPT !.inBlockComment = TRUE, !.i = i + 2]
       ELSE IF st.inSingleQuote
       THEN [st EXCEPT !.inSingleQuote = ~(ch = "'" /\ ~isEscapedByBackslash(runes, i)),
                       !.builder = Append(@, Blanked(ch)), !.i = i + 1]
       ELSE IF st.inDoubleQuote
       THEN [st EXCEPT !.inDoubleQuote = ~(ch = "\"" /\ ~isEscapedByBackslash(runes, i)),
                       !.builder = Append(@, Blanked(ch)), !.i = i + 1]
       ELSE IF st.inBacktick
       THEN [st EXCEPT !.inBacktick = ~(ch = Backquote),
                       !.builder = Append(@, Blanked(ch)), !.i = i + 1]
       ELSE IF ch = "'"
       THEN [st EXCEPT !.inSingleQuote = TRUE, !.builder = Append(@, " "), !.i = i + 1]
       ELSE IF ch = "\""
       THEN [st EXCEPT !.inDoubleQuote = TRUE, !.builder = Append(@, " "), !.i = i + 1]
       ELSE IF ch = Backquote
       THEN [st EXCEPT !.inBacktick = TRUE, !.builder = Append(@, " "), !.i = i + 1]
       ELSE [st EXCEPT !.builder = Append(@, ch), !.i = i + 1]

RECURSIVE StripScan(_, _)
StripScan(st, runes) ==
    IF st.i > Len(runes) THEN st ELSE StripScan(StripRune(st, runes), runes)

\* analyzer.go stripCommentsAndStrings
stripCommentsAndStrings(runes) == StripScan(StripInit, runes).builder

(***************************************************************************)
(* The regular expressions of analyzer.go, read on runes                    *)
(***************************************************************************)

\* The index after the white space that starts at i (regexp \s*).
RECURSIVE SkipSpace(_, _)
SkipSpace(s, i) == IF i <= Len(s) /\ IsSpace(s[i]) THEN SkipSpace(s, i + 1) ELSE i

\* regexp \b between s[i-1] and s[i], one of which is a word.
BoundaryBefore(s, i) == i = 1 \/ ~IsWord(s[i - 1])

BoundaryAfter(s, i) == i = Len(s) \/ ~IsWord(s[i + 1])

\* A word of the text, whatever its letter case (the (?i) flag).
WordAt(s, i, w) == i >= 1 /\ i <= Len(s) /\ UpperRune(s[i]) = w

\* word \s+ word starting at i (as in START\s+TRANSACTION).
TwoWordsAt(s, i, w1, w2) ==
    /\ WordAt(s, i, w1)
    /\ SkipSpace(s, i + 1) > i + 1
    /\ WordAt(s, SkipSpace(s, i + 1), w2)

\* The keywords of reHardStatementStart, but START TRANSACTION.
HardStartWords ==
    {"INSERT", "UPDATE", "DELETE", "CREATE", "ALTER", "DROP", "TRUNCATE", "CALL",
     "REPLACE", "MERGE", "BEGIN", "COMMIT", "ROLLBACK"}

\* The keywords reStatementStart adds to them.
SoftStartWords == {"SELECT", "WITH"}

\* One of the alternatives of a statement-start expression begins at i and
\* ends at a word boundary.
StartKeywordAt(s, i, words) ==
    \/ /\ i <= Len(s) /\ UpperRune(s[i]) \in words /\ BoundaryAfter(s, i)
    \/ /\ TwoWordsAt(s, i, "START", "TRANSACTION")
       /\ BoundaryAfter(s, SkipSpace(s, i + 1))

\* i is the first rune of its line that is not white space: ^\s* under (?m)
\* reaches it from the start of a line.
FirstOnLine(s, i) ==
    /\ i >= 1 /\ i <= Len(s) /\ ~IsSpace(s[i])
    /\ \A k \in 1..(i - 1) : (\A j \in k..(i - 1) : s[j] # "\n") => IsSpace(s[k])

\* The number of matches of ^\s*(words)\b under (?im): FindAllString.
CountStarts(s, words) ==
    Cardinality({i \in 1..Len(s) : FirstOnLine(s, i) /\ StartKeywordAt(s, i, words)})

\* analyzer.go reStatementStart, FindAllString and MatchString
CountStatementStarts(s) == CountStarts(s, HardStartWords \cup SoftStartWords)

\* analyzer.go reHardStatementStart
CountHardStatementStarts(s) == CountStarts(s, HardStartWords)

reStatementStartMatch(s) == CountStatementStarts(s) > 0

RoutineWords == {"PROCEDURE", "FUNCTION", "TRIGGER", "EVENT"}

\* analyzer.go reRoutineDefinition: \bCREATE\s+(?:DEFINER\s*=\s*[^\s]+\s+)?
\* (?:PROCEDURE|FUNCTION|TRIGGER|EVENT)\b, anywhere in the text.
reRoutineDefinitionMatch(s) ==
    \E i \in 1..Len(s) :
        /\ WordAt(s, i, "CREATE") /\ BoundaryBefore(s, i)
        /\ LET j == SkipSpace(s, i + 1)
           IN /\ j > i + 1
              /\ \/ /\ j <= Len(s) /\ UpperRune(s[j]) \in RoutineWords
                    /\ BoundaryAfter(s, j)
                 \/ /\ WordAt(s, j, "DEFINER")
                    /\ LET e == SkipSpace(s, j + 1)
                       IN /\ e <= Len(s) /\ s[e] = "="
                          /\ \E a \in (e + 1)..Len(s), b \in (e + 1)..Len(s) :
                                /\ SkipSpace(s, e + 1) <= a /\ a <= b
                                /\ \A k \in (e + 1)..(a - 1) : IsSpace(s[k])
                                /\ \A k \in a..b : ~IsSpace(s[k])
                                /\ SkipSpace(s, b + 1) > b + 1
                                /\ LET r == SkipSpace(s, b + 1)
                                   IN r <= Len(s) /\ UpperRune(s[r]) \in RoutineWords
                                      /\ BoundaryAfter(s, r)

(***************************************************************************)
(* The terminator heuristics (analyzer.go)                                  *)
(***************************************************************************)

\* strings.ReplaceAll(strings.ReplaceAll(content, "\r\n", "\n"), "\r", "\n")
RECURSIVE NormalizeNewlines(_)
NormalizeNewlines(s) ==
    IF s = <<>> THEN <<>>
    ELSE IF s[1] = "\r" /\ Len(s) >= 2 /\ s[2] = "\n"
    THEN <<"\n">> \o NormalizeNewlines(SubSeq(s, 3, Len(s)))
    ELSE IF s[1] = "\r" THEN <<"\n">> \o NormalizeNewlines(Tail(s))
    ELSE <<s[1]>> \o NormalizeNewlines(Tail(s))

\* strings.Split(s, "\n")
RECURSIVE SplitLines(_)
SplitLines(s) ==
    IF \A k \in 1..Len(s) : s[k] # "\n" THEN <<s>>
    ELSE LET e == LineEnd(s, 1)
         IN <<SubSeq(s, 1, e - 1)>> \o SplitLines(SubSeq(s, e + 1, Len(s)))

\* analyzer.go detectLineTerminator: [terminated, fullwidth]
detectLineTerminator(line) ==
    LET trimmed == TrimSpace(line)
    IN IF HasSuffix(trimmed, <<";">>) THEN [terminated |-> TRUE, fullwidth |-> FALSE]
       ELSE IF HasSuffix(trimmed, <<FullwidthSemicolon>>)
       THEN [terminated |-> TRUE, fullwidth |-> TRUE]
       ELSE [terminated |-> FALSE, fullwidth |-> FALSE]

\* analyzer.go hasStatementTerminatorSuffix
hasStatementTerminatorSuffix(normalized) ==
    LET trimmed == TrimSpace(normalized)
    IN HasSuffix(trimmed, <<";">>) \/ HasSuffix(trimmed, <<FullwidthSemicolon>>)

\* analyzer.go normalizeStatementWithTerminator
normalizeStatementWithTerminator(raw) == TrimSpace(raw)

\* The closure flush of splitSQLByLineStartHeuristicDetailed (and of
\* parseMongoOperations) on [statements, builder].
HeuristicFlush(st, terminated, fullwidthTerminator) ==
    LET statement == TrimSpace(st.builder)
    IN [st EXCEPT !.statements = IF statement = <<>> THEN @
                                 ELSE Append(@, [Text |-> statement, Terminated |-> terminated,
                                                 FullwidthTerminator |-> fullwidthTerminator]),
                  !.builder = <<>>]

\* The body of the loop over the lines.
HeuristicLine(st, rawLine) ==
    LET line == TrimSpace(rawLine)
        s1 == IF Len(st.builder) > 0 /\ reStatementStartMatch(line)
              THEN HeuristicFlush(st, FALSE, FALSE) ELSE st
        s2 == [s1 EXCEPT !.builder = (IF Len(@) > 0 THEN Append(@, "\n") ELSE @) \o line]
        t == detectLineTerminator(line)
    IN IF line = <<>> \/ HasPrefix(line, <<"-", "-">>) \/ HasPrefix(line, <<"#">>) THEN st
       ELSE IF t.terminated THEN HeuristicFlush(s2, TRUE, t.fullwidth)
       ELSE s2

RECURSIVE HeuristicLines(_, _)
HeuristicLines(st, lines) ==
    IF lines = <<>> THEN st ELSE HeuristicLines(HeuristicLine(st, Head(lines)), Tail(lines))

\* analyzer.go splitSQLByLineStartHeuristicDetailed
splitSQLByLineStartHeuristicDetailed(runes) ==
    LET lines == SplitLines(NormalizeNewlines(runes))
        st == HeuristicLines([statements |-> <<>>, builder |-> <<>>], lines)
    IN HeuristicFlush(st, FALSE, FALSE).statements

\* A classification that takes any two line-start keywords for two
\* statements.
MergedOnAnyTwoStarts(statements) ==
    \E k \in 1..Len(statements) :
        CountStatementStarts(TrimSpace(stripCommentsAndStrings(statements[k]))) >= 2

\* analyzer.go hasLikelyMergedStatements
hasLikelyMergedStatements(statements) ==
    \E k \in 1..Len(statements) :
        LET normalized == TrimSpace(stripCommentsAndStrings(statements[k]))
            allStarts == CountStatementStarts(normalized)
            hardStarts == CountHardStatementStarts(normalized)
        IN normalized # <<>> /\ (hardStarts >= 2 \/ (hardStarts >= 1 /\ allStarts >= 2))

\* The entries [Index, Statement] of the statements that satisfy a test.
RECURSIVE IndexedItems(_, _, _)
IndexedItems(detailed, Listed(_), idx) ==
    IF idx > Len(detailed) THEN <<>>
    ELSE (IF Listed(detailed[idx]) /\ normalizeStatementWithTerminator(detailed[idx].Text) # <<>>
          THEN <<[Index |-> idx,
                  Statement |-> normalizeStatementWithTerminator(detailed[idx].Text)]>>
          ELSE <<>>) \o IndexedItems(detailed, Listed, idx + 1)

IsFullwidthTerminated(statement) == statement.FullwidthTerminator

IsNotTerminated(statement) == ~statement.Terminated

\* analyzer.go detectFullwidthTerminatorStatements
detectFullwidthTerminatorStatements(runes, containsRoutine) ==
    IF containsRoutine THEN <<>>
    ELSE IndexedItems(splitSQLByLineStartHeuristicDetailed(runes), IsFullwidthTerminated, 1)

\* analyzer.go detectMissingTerminatorStatements
detectMissingTerminatorStatements(runes, statements, containsRoutine) ==
    LET normalized == TrimSpace(stripCommentsAndStrings(runes))
        detailed == splitSQLByLineStartHeuristicDetailed(runes)
        last == normalizeStatementWithTerminator(statements[Len(statements)])
    IN IF containsRoutine THEN <<>>
       ELSE IF normalized = <<>> THEN <<>>
       ELSE IF Contains(ToUpper(normalized), <<"DELIMITER", " ">>) THEN <<>>
       ELSE IF hasLikelyMergedStatements(statements)
       THEN IF Len(detailed) <= 1 THEN <<>>
            ELSE IndexedItems(detailed, IsNotTerminated, 1)
       ELSE IF Len(statements) >= 1 /\ ~hasStatementTerminatorSuffix(normalized)
       THEN IF last = <<>> THEN <<>>
            ELSE <<[Index |-> Len(statements), Statement |-> last]>>
       ELSE <<>>

ExcludeNothing(missing, excludes) == missing

\* analyzer.go excludeMissingTerminatorStatements
excludeMissingTerminatorStatements(missing, excludes) ==
    IF Len(missing) = 0 \/ Len(excludes) = 0 THEN missing
    ELSE LET excluded == {excludes[k].Index : k \in 1..Len(excludes)}
             Kept(k) == missing[k].Index \notin excluded
         IN SelectSeqIdx(missing, Kept, 1)

\* analyzer.go buildMissingTerminatorStatementSnippet
buildMissingTerminatorStatementSnippet(items) ==
    LET NotEmpty(k) == items[k].Statement # <<>>
        kept == SelectSeqIdx(items, NotEmpty, 1)
    IN JoinLines([k \in 1..Len(kept) |-> kept[k].Statement])

\* The indices the message of a terminator issue lists, in order
\* (buildMissingTerminatorIssueMessageWithSubject and
\* buildFullwidthTerminatorIssueMessageWithSubject).
MessageIndices(items) == [k \in 1..Len(items) |-> items[k].Index]

(***************************************************************************)
(* The rule expressions of analyzer.go and engine_analyzer.go               *)
(***************************************************************************)

\* The index of the last word when words[1] \s+ words[2] \s+ ... starts at
\* i, else 0.
RECURSIVE Phrase(_, _, _)
Phrase(s, i, words) ==
    IF ~WordAt(s, i, words[1]) THEN 0
    ELSE IF Len(words) = 1 THEN i
    ELSE IF SkipSpace(s, i + 1) = i + 1 THEN 0
    ELSE Phrase(s, SkipSpace(s, i + 1), Tail(words))

\* ^\s*words
LeadingPhrase(s, words) == Phrase(s, SkipSpace(s, 1), words)

SpaceAt(s, i) == i >= 1 /\ i <= Len(s) /\ IsSpace(s[i])

\* A rune that starts with a digit (regexp \d+ matches at it).
StartsWithDigit(ch) == ch \in {"1", "2", "3", "10"}

RiskWriteWords == {"UPDATE", "DELETE", "INSERT", "ALTER", "DROP", "TRUNCATE"}

\* reRiskWrite: ^\s*(UPDATE|DELETE|INSERT|ALTER|DROP|TRUNCATE)\b
reRiskWrite(s) ==
    LET i == SkipSpace(s, 1)
    IN i <= Len(s) /\ s[i] \in RiskWriteWords /\ BoundaryAfter(s, i)

\* reBeginTx: ^\s*(BEGIN|START\s+TRANSACTION)\b
reBeginTx(s) ==
    \/ LeadingPhrase(s, <<"BEGIN">>) > 0 /\ BoundaryAfter(s, LeadingPhrase(s, <<"BEGIN">>))
    \/ /\ LeadingPhrase(s, <<"START", "TRANSACTION">>) > 0
       /\ BoundaryAfter(s, LeadingPhrase(s, <<"START", "TRANSACTION">>))

\* reCommitTx: ^\s*COMMIT\b
reCommitTx(s) ==
    LeadingPhrase(s, <<"COMMIT">>) > 0 /\ BoundaryAfter(s, LeadingPhrase(s, <<"COMMIT">>))

\* reDropObj: ^\s*DROP\s+(TABLE|DATABASE|VIEW|INDEX)\b
reDropObj(s) ==
    \E w \in {"TABLE", "DATABASE", "VIEW", "INDEX"} :
        LeadingPhrase(s, <<"DROP", w>>) > 0 /\ BoundaryAfter(s, LeadingPhrase(s, <<"DROP", w>>))

\* reTruncate: ^\s*TRUNCATE\s+TABLE\b
reTruncate(s) ==
    /\ LeadingPhrase(s, <<"TRUNCATE", "TABLE">>) > 0
    /\ BoundaryAfter(s, LeadingPhrase(s, <<"TRUNCATE", "TABLE">>))

\* reAlterDropCol: ^\s*ALTER\s+TABLE\s+.+\s+DROP\s+COLUMN\b
reAlterDropCol(s) ==
    LET t == LeadingPhrase(s, <<"ALTER", "TABLE">>)
    IN /\ t > 0 /\ SpaceAt(s, t + 1)
       /\ \E j \in (t + 4)..Len(s) :
            /\ SpaceAt(s, j - 1)
            /\ Phrase(s, j, <<"DROP", "COLUMN">>) > 0
            /\ BoundaryAfter(s, Phrase(s, j, <<"DROP", "COLUMN">>))

\* reUpdateNoWhere: ^\s*UPDATE\s+.+?\s+SET\s+.+$
reUpdateNoWhere(s) ==
    LET u == LeadingPhrase(s, <<"UPDATE">>)
    IN /\ u > 0 /\ SpaceAt(s, u + 1)
       /\ \E j \in (u + 4)..Len(s) :
            SpaceAt(s, j - 1) /\ WordAt(s, j, "SET") /\ SpaceAt(s, j + 1) /\ Len(s) >= j + 2

\* reDeleteNoWhere: ^\s*DELETE\s+FROM\s+.+$
reDeleteNoWhere(s) ==
    LET f == LeadingPhrase(s, <<"DELETE", "FROM">>)
    IN f > 0 /\ SpaceAt(s, f + 1) /\ Len(s) >= f + 2

\* The keyword WHERE between whitespace of any kind (\sWHERE\s).
ContainsWhereAnySpace(upper) ==
    \E i \in 2..(Len(upper) - 1) :
        upper[i] = "WHERE" /\ IsSpace(upper[i - 1]) /\ IsSpace(upper[i + 1])

\* strings.Contains(upper, " WHERE ")
ContainsWhere(upper) == Contains(upper, <<" ", "WHERE", " ">>)

\* reWhereOneEqOne: \bWHERE\s+1\s*=\s*1\b
reWhereOneEqOne(s) ==
    \E i \in 1..Len(s) :
        /\ WordAt(s, i, "WHERE") /\ BoundaryBefore(s, i)
        /\ LET a == SkipSpace(s, i + 1)
               e == SkipSpace(s, a + 1)
               b == SkipSpace(s, e + 1)
           IN /\ a > i + 1 /\ WordAt(s, a, "1")
              /\ e <= Len(s) /\ s[e] = "="
              /\ WordAt(s, b, "1") /\ BoundaryAfter(s, b)

\* reSelectStar: ^\s*SELECT\s+\*\s+FROM\s+
reSelectStar(s) ==
    LET i == LeadingPhrase(s, <<"SELECT">>)
        a == SkipSpace(s, i + 1)
        f == SkipSpace(s, a + 1)
    IN /\ i > 0 /\ a > i + 1 /\ a <= Len(s) /\ s[a] = "*"
       /\ f > a + 1 /\ WordAt(s, f, "FROM") /\ SpaceAt(s, f + 1)

\* reSelect: ^\s*SELECT\s+
reSelect(s) ==
    LeadingPhrase(s, <<"SELECT">>) > 0 /\ SpaceAt(s, LeadingPhrase(s, <<"SELECT">>) + 1)

\* reLimit: \s+LIMIT\s+\d+
reLimit(s) ==
    \E i \in 2..Len(s) :
        /\ SpaceAt(s, i - 1) /\ WordAt(s, i, "LIMIT")
        /\ LET d == SkipSpace(s, i + 1)
           IN d > i + 1 /\ d <= Len(s) /\ StartsWithDigit(s[d])

IsQuoteRune(ch) == ch \in {"'", "\""}

\* ['"]%[^'"]*['"] starting at i
QuotedLeadingWildcard(s, i) ==
    /\ i + 1 <= Len(s) /\ IsQuoteRune(s[i]) /\ s[i + 1] = "%"
    /\ \E j \in (i + 2)..Len(s) :
         IsQuoteRune(s[j]) /\ \A k \in (i + 2)..(j - 1) : ~IsQuoteRune(s[k])

\* reLikeLeadWild: LIKE\s+['"]%[^'"]*['"], which also matches at the end
\* of ILIKE; rePostgresLikeLeadWild: (LIKE|ILIKE)\s+['"]%[^'"]*['"].
reLikeLeadWild(s) ==
    \E i \in 1..Len(s) :
        /\ UpperRune(s[i]) \in {"LIKE", "ILIKE"}
        /\ SkipSpace(s, i + 1) > i + 1
        /\ QuotedLeadingWildcard(s, SkipSpace(s, i + 1))

rePostgresLikeLeadWild(s) == reLikeLeadWild(s)

\* reOrderByRand: ORDER\s+BY\s+RAND\s*\(
reOrderByRand(s) ==
    \E i \in 1..Len(s) :
        LET r == Phrase(s, i, <<"ORDER", "BY", "RAND">>)
        IN r > 0 /\ SkipSpace(s, r + 1) <= Len(s) /\ s[SkipSpace(s, r + 1)] = "("

\* reSelectIntoOut: \bINTO\s+OUTFILE\b
reSelectIntoOut(s) ==
    \E i \in 1..Len(s) :
        /\ BoundaryBefore(s, i) /\ Phrase(s, i, <<"INTO", "OUTFILE">>) > 0
        /\ BoundaryAfter(s, Phrase(s, i, <<"INTO", "OUTFILE">>))

\* The index after [\w.]+ starting at i.
RECURSIVE SkipName(_, _)
SkipName(s, i) ==
    IF i <= Len(s) /\ (IsWord(s[i]) \/ s[i] = ".") THEN SkipName(s, i + 1) ELSE i

\* reInsertNoCols: ^\s*INSERT\s+INTO\s+[\w.]+\s+VALUES\s*\(
reInsertNoCols(s) ==
    LET n == LeadingPhrase(s, <<"INSERT", "INTO">>)
        a == SkipSpace(s, n + 1)
        e == SkipName(s, a)
        v == SkipSpace(s, e)
        o == SkipSpace(s, v + 1)
    IN /\ n > 0 /\ a > n + 1 /\ e > a /\ v > e /\ WordAt(s, v, "VALUES")
       /\ o <= Len(s) /\ s[o] = "("

\* reCreateTable: ^\s*CREATE\s+TABLE\s+
reCreateTable(s) ==
    /\ LeadingPhrase(s, <<"CREATE", "TABLE">>) > 0
    /\ SpaceAt(s, LeadingPhrase(s, <<"CREATE", "TABLE">>) + 1)

\* reCreateIfNE: ^\s*CREATE\s+TABLE\s+IF\s+NOT\s+EXISTS\s+
reCreateIfNE(s) ==
    /\ LeadingPhrase(s, <<"CREATE", "TABLE", "IF", "NOT", "EXISTS">>) > 0
    /\ SpaceAt(s, LeadingPhrase(s, <<"CREATE", "TABLE", "IF", "NOT", "EXISTS">>) + 1)

(***************************************************************************)
(* Reports (analyzer.go, engine_analyzer.go)                                *)
(***************************************************************************)

LevelError == "error"

LevelWarning == "warning"

LevelInfo == "info"

rulesVersion == "v1.3"

postgresRulesVersion == "pg-v0.1"

mongoRulesVersion == "mongo-v0.1"

\* AnalyzeOptions.DisabledRules when the caller passes no map (a nil map reads
\* as an empty one; it is kept apart from the empty map by this value).
NilMap == {"nil map"}

\* An Issue.  Message holds what of the message depends on the script: the
\* statement indices a terminator issue lists (the rest of a message and the
\* suggestion are fixed texts of the rule).
Issue(index, level, rule, message, statement) ==
    [StatementIndex |-> index, Level |-> level, Rule |-> rule,
     Message |-> message, Statement |-> statement]

\* The closure ruleEnabled of AnalyzeSQLWithOptions.
ruleEnabled(opts, rule) ==
    IF opts.DisabledRules = NilMap THEN TRUE ELSE rule \notin opts.DisabledRules

AddIssueUnfiltered(issues, issue, opts) == Append(issues, issue)

\* The closure addIssue of AnalyzeSQLWithOptions.
addIssue(issues, issue, opts) ==
    IF ruleEnabled(opts, issue.Rule) THEN Append(issues, issue) ELSE issues

RECURSIVE addIssues(_, _, _)
addIssues(issues, more, opts) ==
    IF more = <<>> THEN issues
    ELSE addIssues(addIssue(issues, Head(more), opts), Tail(more), opts)

SeverityWeightFlat(level) == 1

\* analyzer.go severityWeight
severityWeight(level) ==
    IF level = LevelError THEN 3 ELSE IF level = LevelWarning THEN 2 ELSE 1

LessByIndexOnly(a, b) == a.StatementIndex < b.StatementIndex

\* The less function handed to sort.SliceStable.
IssueLess(a, b) ==
    IF a.StatementIndex = b.StatementIndex
    THEN severityWeight(a.Level) > severityWeight(b.Level)
    ELSE a.StatementIndex < b.StatementIndex

\* x put into the sorted sequence s after every element that is not greater.
RECURSIVE InsertStable(_, _)
InsertStable(s, x) ==
    IF s = <<>> THEN <<x>>
    ELSE IF IssueLess(x, s[Len(s)]) THEN Append(InsertStable(SubSeq(s, 1, Len(s) - 1), x), s[Len(s)])
    ELSE Append(s, x)

RECURSIVE SortFrom(_, _)
SortFrom(sorted, rest) ==
    IF rest = <<>> THEN sorted ELSE SortFrom(InsertStable(sorted, Head(rest)), Tail(rest))

\* sort.SliceStable(issues, less)
SortSliceStable(issues) == SortFrom(<<>>, issues)

CountLevel(issues, level) == Cardinality({k \in 1..Len(issues) : issues[k].Level = level})

\* engine_analyzer.go summarizeIssues (and the counting loop of
\* AnalyzeSQLWithOptions)
summarizeIssues(statementCount, issues) ==
    [StatementCount |-> statementCount,
     ErrorCount |-> CountLevel(issues, LevelError),
     WarningCount |-> CountLevel(issues, LevelWarning),
     InfoCount |-> CountLevel(issues, LevelInfo)]

\* engine_analyzer.go buildAdvice; an advice text is written by a short name.
buildAdvice(summary) ==
    (IF summary.ErrorCount > 0 THEN <<"high-risk">> ELSE <<>>)
    \o (IF summary.WarningCount > 0 THEN <<"medium-risk">> ELSE <<>>)
    \o (IF summary.ErrorCount = 0 /\ summary.WarningCount = 0
        THEN <<"no-high-risk">> ELSE <<>>)

FilterNothing(res, opts) == res

\* engine_analyzer.go filterDisabledRules
filterDisabledRules(res, opts) ==
    IF opts.DisabledRules = NilMap \/ opts.DisabledRules = {} \/ Len(res.Issues) = 0
    THEN res
    ELSE LET Kept(k) == res.Issues[k].Rule \notin opts.DisabledRules
         IN [res EXCEPT !.Issues = SelectSeqIdx(res.Issues, Kept, 1)]

\* The issue of one rule on statement i when the rule's test holds.
Finding(test, i, level, rule, stmt) ==
    IF test THEN <<Issue(i, level, rule, <<>>, stmt)>> ELSE <<>>

\* The script-level aggregates of the statement loop.
AnyStatement(statements, Test(_)) ==
    \E k \in 1..Len(statements) :
        TrimSpace(statements[k]) # <<>> /\ Test(ToUpper(TrimSpace(statements[k])))

\* One terminator issue for each listed statement.
RECURSIVE TerminatorFindingPerItem(_, _)
TerminatorFindingPerItem(items, rule) ==
    IF Len(items) = 0 THEN <<>>
    ELSE <<Issue(items[1].Index, LevelError, rule, <<items[1].Index>>, items[1].Statement)>>
         \o TerminatorFindingPerItem(Tail(items), rule)

\* The terminator issue for the listed statements, if any.
TerminatorFinding(items, rule) ==
    IF Len(items) > 0
    THEN <<Issue(items[1].Index, LevelError, rule, MessageIndices(items),
                 buildMissingTerminatorStatementSnippet(items))>>
    ELSE <<>>

TooManyStatementsMySQL == 60

TooManyStatementsPostgres == 80

(***************************************************************************)
(* AnalyzeSQLWithOptions (analyzer.go)                                      *)
(***************************************************************************)

\* The checks of the statement loop on statement i, in the order they run.
SQLStatementFindings(st, i) ==
    LET Checks(stmt, upper) ==
            Finding(reDropObj(upper), i, LevelError, "dangerous_drop", stmt)
            \o Finding(reTruncate(upper), i, LevelError, "dangerous_truncate", stmt)
            \o Finding(reAlterDropCol(upper), i, LevelWarning, "alter_drop_column", stmt)
            \o Finding(reUpdateNoWhere(upper) /\ ~ContainsWhere(upper), i, LevelError,
                       "update_without_where", stmt)
            \o Finding(reDeleteNoWhere(upper) /\ ~ContainsWhere(upper), i, LevelError,
                       "delete_without_where", stmt)
            \o Finding(reWhereOneEqOne(upper), i, LevelWarning, "where_1_eq_1", stmt)
            \o Finding(reSelectStar(upper), i, LevelWarning, "select_star", stmt)
            \o Finding(reSelect(upper) /\ ~reLimit(upper), i, LevelInfo,
                       "select_without_limit", stmt)
            \o Finding(reLikeLeadWild(stmt), i, LevelWarning, "like_leading_wildcard", stmt)
            \o Finding(reOrderByRand(upper), i, LevelWarning, "order_by_rand", stmt)
            \o Finding(reSelectIntoOut(upper), i, LevelError, "into_outfile", stmt)
            \o Finding(reInsertNoCols(upper), i, LevelInfo, "insert_without_column_list",
                       stmt)
            \o Finding(reCreateTable(upper) /\ ~reCreateIfNE(upper), i, LevelInfo,
                       "create_table_without_if_not_exists", stmt)
        Trimmed(stmt) == IF stmt = <<>> THEN <<>> ELSE Checks(stmt, ToUpper(stmt))
    IN Trimmed(TrimSpace(st))

RECURSIVE StatementLoop(_, _, _)
StatementLoop(statements, Findings(_, _), i) ==
    IF i > Len(statements) THEN <<>>
    ELSE Findings(statements[i], i) \o StatementLoop(statements, Findings, i + 1)

\* The warning raised on a missing transaction start alone.
RiskyWritesFindingWithoutBegin(statements) ==
    Finding(/\ AnyStatement(statements, reRiskWrite)
            /\ Len(statements) > 1
            /\ ~AnyStatement(statements, reBeginTx),
            0, LevelWarning, "risky_writes_without_transaction", <<>>)

\* The script-level warning after the statement loop.
RiskyWritesFinding(statements) ==
    Finding(/\ AnyStatement(statements, reRiskWrite)
            /\ Len(statements) > 1
            /\ (~AnyStatement(statements, reBeginTx) \/ ~AnyStatement(statements, reCommitTx)),
            0, LevelWarning, "risky_writes_without_transaction", <<>>)

EmptyInputAsWarning == Issue(0, LevelWarning, "empty_input", <<>>, <<>>)

\* The issue of the empty-script return.
EmptyInputIssue == Issue(0, LevelError, "empty_input", <<>>, <<>>)

\* The two terminator checks: the full-width one, then the missing one with
\* the full-width statements taken out.
TerminatorFindings(fullwidthTerminatorStatements, missingTerminatorStatements,
                   fullwidthRule, missingRule) ==
    TerminatorFinding(fullwidthTerminatorStatements, fullwidthRule)
    \o TerminatorFinding(
           excludeMissingTerminatorStatements(missingTerminatorStatements,
                                              fullwidthTerminatorStatements),
           missingRule)

\* The issues AnalyzeSQLWithOptions hands to addIssue, in order.
SQLFindings(runes, statements, containsRoutine) ==
    Finding(containsRoutine, 0, LevelInfo, "routine_definition_detected", <<>>)
    \o TerminatorFindings(detectFullwidthTerminatorStatements(runes, containsRoutine),
                          detectMissingTerminatorStatements(runes, statements, containsRoutine),
                          "fullwidth_statement_terminator", "missing_statement_terminator")
    \o Finding(Len(statements) > TooManyStatementsMySQL, 0, LevelWarning,
               "too_many_statements", <<>>)
    \o StatementLoop(statements, SQLStatementFindings, 1)
    \o RiskyWritesFinding(statements)

\* The tail of AnalyzeSQLWithOptions: the counting loop and the advice.
SQLReport(issues, statements, containsRoutine) ==
    LET Report(summary) ==
            [RulesVersion |-> rulesVersion,
             Summary |-> summary,
             Issues |-> issues,
             Advice |-> buildAdvice(summary)
                        \o (IF containsRoutine THEN <<"routine">> ELSE <<>>)]
    IN Report(summarizeIssues(Len(statements), issues))

\* analyzer.go AnalyzeSQLWithOptions (CheckedAt, the time of the call, is
\* kept by the caller's record, not in the report)
AnalyzeSQLWithOptions(runes, opts) ==
    IF TrimSpace(runes) = <<>>
    THEN [RulesVersion |-> rulesVersion,
          Summary |-> [StatementCount |-> 0, ErrorCount |-> 1, WarningCount |-> 0,
                       InfoCount |-> 0],
          Issues |-> IF ruleEnabled(opts, "empty_input") THEN <<EmptyInputIssue>> ELSE <<>>,
          Advice |-> <<"enter-script">>]
    ELSE LET Checked(statements, containsRoutine) ==
                 SQLReport(
                     SortSliceStable(
                         addIssues(<<>>, SQLFindings(runes, statements, containsRoutine), opts)),
                     statements, containsRoutine)
         IN Checked(splitSQLStatements(runes), reRoutineDefinitionMatch(runes))

(***************************************************************************)
(* AnalyzePostgresWithOptions (engine_analyzer.go)                          *)
(***************************************************************************)

\* The checks of the statement loop on statement i, in the order they run.
PostgresStatementFindings(st, i) ==
    LET Checks(stmt, upperTrim) ==
            Finding(reDropObj(upperTrim), i, LevelError, "pg_dangerous_drop", stmt)
            \o Finding(reTruncate(upperTrim), i, LevelError, "pg_dangerous_truncate", stmt)
            \o Finding(reUpdateNoWhere(upperTrim) /\ ~ContainsWhere(upperTrim), i, LevelError,
                       "pg_update_without_where", stmt)
            \o Finding(reDeleteNoWhere(upperTrim) /\ ~ContainsWhere(upperTrim), i, LevelError,
                       "pg_delete_without_where", stmt)
            \o Finding(reSelectStar(upperTrim), i, LevelWarning, "pg_select_star", stmt)
            \o Finding(reSelect(upperTrim) /\ ~reLimit(upperTrim), i, LevelInfo,
                       "pg_select_without_limit", stmt)
            \o Finding(rePostgresLikeLeadWild(stmt), i, LevelWarning,
                       "pg_like_leading_wildcard", stmt)
            \o Finding(/\ HasPrefix(upperTrim, <<"CREATE", " ", "INDEX">>)
                       /\ ~Contains(upperTrim, <<" ", "CONCURRENTLY", " ">>),
                       i, LevelWarning, "pg_create_index_without_concurrently", stmt)
        Trimmed(stmt) == IF stmt = <<>> THEN <<>> ELSE Checks(stmt, TrimSpace(ToUpper(stmt)))
    IN Trimmed(TrimSpace(st))

\* The issues AnalyzePostgresWithOptions appends, in order.
PostgresFindings(runes, statements) ==
    TerminatorFindings(detectFullwidthTerminatorStatements(runes, FALSE),
                       detectMissingTerminatorStatements(runes, statements, FALSE),
                       "fullwidth_statement_terminator", "missing_statement_terminator")
    \o Finding(Len(statements) > TooManyStatementsPostgres, 0, LevelWarning,
               "too_many_statements", <<>>)
    \o StatementLoop(statements, PostgresStatementFindings, 1)
    \o RiskyWritesFinding(statements)

\* The empty-script return of AnalyzePostgresWithOptions and
\* AnalyzeMongoWithOptions: the summary is taken before the filter runs.
EmptyScriptResult(version, opts) ==
    filterDisabledRules(
        [RulesVersion |-> version,
         Summary |-> summarizeIssues(0, <<EmptyInputIssue>>),
         Issues |-> <<EmptyInputIssue>>,
         Advice |-> <<"enter-script">>], opts)

\* The common tail of AnalyzePostgresWithOptions and AnalyzeMongoWithOptions:
\* sort, filter, summarize, advise.
FinishResult(version, statementCount, issues, opts) ==
    LET Advised(filtered, summary) ==
            [filtered EXCEPT !.Summary = summary, !.Advice = buildAdvice(summary)]
        Summarized(filtered) ==
            Advised(filtered, summarizeIssues(statementCount, filtered.Issues))
    IN Summarized(filterDisabledRules(
                      [RulesVersion |-> version,
                       Summary |-> summarizeIssues(0, <<>>),
                       Issues |-> SortSliceStable(issues),
                       Advice |-> <<>>], opts))

\* engine_analyzer.go AnalyzePostgresWithOptions
AnalyzePostgresWithOptions(runes, opts) ==
    IF TrimSpace(runes) = <<>> THEN EmptyScriptResult(postgresRulesVersion, opts)
    ELSE LET Checked(statements) ==
                 FinishResult(postgresRulesVersion, Len(statements),
                              PostgresFindings(runes, statements), opts)
         IN Checked(splitSQLStatements(runes))

(***************************************************************************)
(* parseMongoOperations and AnalyzeMongoWithOptions (engine_analyzer.go)    *)
(***************************************************************************)

MongoInit ==
    [statements |-> <<>>, builder |-> <<>>,
     inSingleQuote |-> FALSE, inDoubleQuote |-> FALSE, inBacktick |-> FALSE,
     inLineComment |-> FALSE, inBlockComment |-> FALSE,
     parenDepth |-> 0, braceDepth |-> 0, bracketDepth |-> 0, i |-> 1]

\* A test that takes every place for one outside all brackets.
DepthZeroAlways(st) == st.parenDepth >= 0

DepthZero(st) == st.parenDepth = 0 /\ st.braceDepth = 0 /\ st.bracketDepth = 0

\* The switch on the bracket runes without the tests for a depth above 0.
MongoDepthsUnguarded(st, ch) ==
    [st EXCEPT !.parenDepth = IF ch = "(" THEN @ + 1 ELSE IF ch = ")" THEN @ - 1 ELSE @,
               !.braceDepth = IF ch = "{" THEN @ + 1 ELSE IF ch = "}" THEN @ - 1 ELSE @,
               !.bracketDepth = IF ch = "[" THEN @ + 1 ELSE IF ch = "]" THEN @ - 1 ELSE @]

\* The switch on the bracket runes.
MongoDepths(st, ch) ==
    [st EXCEPT !.parenDepth = IF ch = "(" THEN @ + 1
                              ELSE IF ch = ")" /\ @ > 0 THEN @ - 1 ELSE @,
               !.braceDepth = IF ch = "{" THEN @ + 1
                              ELSE IF ch = "}" /\ @ > 0 THEN @ - 1 ELSE @,
               !.bracketDepth = IF ch = "[" THEN @ + 1
                                ELSE IF ch = "]" /\ @ > 0 THEN @ - 1 ELSE @]

\* One pass of the loop of parseMongoOperations on runes[st.i].
MongoRune(st, runes) ==
    LET i == st.i
        ch == runes[i]
        next == IF i + 1 <= Len(runes) THEN runes[i + 1] ELSE NoRune
        single == IF ch = "'" /\ ~st.inDoubleQuote /\ ~st.inBacktick
                     /\ ~isEscapedByBackslash(runes, i)
                  THEN ~st.inSingleQuote ELSE st.inSingleQuote
        double == IF ch = "\"" /\ ~st.inSingleQuote /\ ~st.inBacktick
                     /\ ~isEscapedByBackslash(runes, i)
                  THEN ~st.inDoubleQuote ELSE st.inDoubleQuote
        back == IF ch = Backquote /\ ~st.inSingleQuote /\ ~st.inDoubleQuote
                THEN ~st.inBacktick ELSE st.inBacktick
        q == [st EXCEPT !.inSingleQuote = single, !.inDoubleQuote = double,
                        !.inBacktick = back]
        d == MongoDepths(q, ch)
    IN IF st.inLineComment
       THEN IF ch = "\n"
            THEN IF ~InQuote(st) /\ DepthZero(st)
                 THEN [HeuristicFlush(st, FALSE, FALSE) EXCEPT !.inLineComment = FALSE,
                                                               !.i = i + 1]
                 ELSE [st EXCEPT !.inLineComment = FALSE, !.i = i + 1]
            ELSE [st EXCEPT !.i = i + 1]
       ELSE IF st.inBlockComment
       THEN IF ch = "*" /\ next = "/"
            THEN [st EXCEPT !.inBlockComment = FALSE, !.i = i + 2]
            ELSE [st EXCEPT !.i = i + 1]
       ELSE IF ~InQuote(st) /\ ch = "/" /\ next = "/"
       THEN [st EXCEPT !.inLineComment = TRUE, !.i = i + 2]
       ELSE IF ~InQuote(st) /\ ch = "/" /\ next = "*"
       THEN [st EXCEPT !.inBlockComment = TRUE, !.i = i + 2]
       ELSE IF InQuote(q)
       THEN [q EXCEPT !.builder = Append(@, ch), !.i = i + 1]
       ELSE IF isFullwidthSemicolon(ch) /\ DepthZero(q)
       THEN [HeuristicFlush(q, TRUE, TRUE) EXCEPT !.i = i + 1]
       ELSE IF ch = ";" /\ DepthZero(d)
       THEN [HeuristicFlush(d, TRUE, FALSE) EXCEPT !.i = i + 1]
       ELSE IF ch = "\n" /\ DepthZero(d)
       THEN [HeuristicFlush(d, FALSE, FALSE) EXCEPT !.i = i + 1]
       ELSE [d EXCEPT !.builder = Append(@, ch), !.i = i + 1]

RECURSIVE MongoScan(_, _)
MongoScan(st, runes) ==
    IF st.i > Len(runes) THEN st ELSE MongoScan(MongoRune(st, runes), runes)

\* engine_analyzer.go parseMongoOperations
parseMongoOperations(runes) ==
    HeuristicFlush(MongoScan(MongoInit, NormalizeNewlines(runes)), FALSE, FALSE).statements

\* engine_analyzer.go splitMongoOperations
splitMongoOperations(runes) ==
    LET Texts(ops) ==
            LET kept == SelectSeq(ops, LAMBDA op : TrimSpace(op.Text) # <<>>)
                items == [k \in 1..Len(kept) |-> kept[k].Text]
            IN IF Len(items) = 0 THEN <<TrimSpace(runes)>> ELSE items
    IN Texts(parseMongoOperations(runes))

\* engine_analyzer.go compactScriptText
compactScriptText(input) ==
    LET t == TrimSpace(input)
        Kept(k) == t[k] \notin {" ", "\t", "\n", "\r"}
    IN SelectSeqIdx(t, Kept, 1)

\* The checks of the operation loop on operation i, in the order they run.
MongoOperationFindings(op, i) ==
    LET Checks(compact, stmt) ==
            IF compact = <<>> THEN <<>>
            ELSE Finding(Contains(compact, <<".", "updatemany", "(", "{", "}", ",">>), i,
                         LevelError, "mongo_update_many_without_filter", stmt)
              \o Finding(Contains(compact, <<".", "deletemany", "(", "{", "}", ")">>), i,
                         LevelError, "mongo_delete_many_without_filter", stmt)
              \o Finding(/\ Contains(compact, <<".", "find", "(">>)
                         /\ ~Contains(compact, <<".", "limit", "(">>),
                         i, LevelInfo, "mongo_find_without_limit", stmt)
              \o Finding(Contains(compact, <<"$where">>), i, LevelWarning,
                         "mongo_where_operator", stmt)
              \o Finding(/\ Contains(compact, <<".", "aggregate", "(">>)
                         /\ (Contains(compact, <<"$out">>) \/ Contains(compact, <<"$merge">>)),
                         i, LevelWarning, "mongo_aggregate_out_merge", stmt)
    IN Checks(compactScriptText(ToLower(op.Text)), TrimSpace(op.Text))

\* The issues without the test for more than one operation.
MongoFindingsAnyCount(mongoOps) ==
    TerminatorFinding(IndexedItems(mongoOps, IsFullwidthTerminated, 1),
                      "fullwidth_statement_terminator")
    \o TerminatorFinding(IndexedItems(mongoOps, IsNotTerminated, 1),
                         "mongo_missing_statement_terminator")
    \o StatementLoop(mongoOps, MongoOperationFindings, 1)

\* The issues AnalyzeMongoWithOptions appends, in order.
MongoFindings(mongoOps) ==
    TerminatorFinding(IndexedItems(mongoOps, IsFullwidthTerminated, 1),
                      "fullwidth_statement_terminator")
    \o TerminatorFinding(IF Len(mongoOps) > 1 THEN IndexedItems(mongoOps, IsNotTerminated, 1)
                         ELSE <<>>,
                         "mongo_missing_statement_terminator")
    \o StatementLoop(mongoOps, MongoOperationFindings, 1)

\* engine_analyzer.go AnalyzeMongoWithOptions
AnalyzeMongoWithOptions(runes, opts) ==
    IF TrimSpace(runes) = <<>> THEN EmptyScriptResult(mongoRulesVersion, opts)
    ELSE LET Checked(mongoOps) ==
                 FinishResult(mongoRulesVersion, Len(mongoOps), MongoFindings(mongoOps), opts)
         IN Checked(parseMongoOperations(runes))

(***************************************************************************)
(* The engine dispatcher (engine_analyzer.go)                               *)
(***************************************************************************)

EngineMySQL == <<"mysql">>

EnginePostgreSQL == <<"postgresql">>

EngineMongoDB == <<"mongodb">>

\* A selection that keeps the whitespace around the selector.
NormalizeEngineUntrimmed(raw) ==
    LET trimmed == ToLower(raw)
    IN IF trimmed \in {<<"pg">>, <<"postgres">>, <<"postgresql">>} THEN EnginePostgreSQL
       ELSE IF trimmed \in {<<"mongo">>, <<"mongodb">>} THEN EngineMongoDB
       ELSE EngineMySQL

\* engine_analyzer.go NormalizeEngine
NormalizeEngine(raw) ==
    LET trimmed == ToLower(TrimSpace(raw))
    IN IF trimmed \in {<<"pg">>, <<"postgres">>, <<"postgresql">>} THEN EnginePostgreSQL
       ELSE IF trimmed \in {<<"mongo">>, <<"mongodb">>} THEN EngineMongoDB
       ELSE EngineMySQL

\* engine_analyzer.go RulesForEngine: the version tag of the catalog it
\* returns (the rule definitions of the catalog are not part of the model).
RulesForEngine(eng) ==
    IF NormalizeEngine(eng) = EnginePostgreSQL THEN postgresRulesVersion
    ELSE IF NormalizeEngine(eng) = EngineMongoDB THEN mongoRulesVersion
    ELSE rulesVersion

\* analyzer.go BuiltInRules: the code and the level of each rule.
BuiltInRules ==
    << [Code |-> "empty_input", Level |-> LevelError],
       [Code |-> "too_many_statements", Level |-> LevelWarning],
       [Code |-> "missing_statement_terminator", Level |-> LevelError],
       [Code |-> "fullwidth_statement_terminator", Level |-> LevelError],
       [Code |-> "routine_definition_detected", Level |-> LevelInfo],
       [Code |-> "dangerous_drop", Level |-> LevelError],
       [Code |-> "dangerous_truncate", Level |-> LevelError],
       [Code |-> "alter_drop_column", Level |-> LevelWarning],
       [Code |-> "update_without_where", Level |-> LevelError],
       [Code |-> "delete_without_where", Level |-> LevelError],
       [Code |-> "where_1_eq_1", Level |-> LevelWarning],
       [Code |-> "select_star", Level |-> LevelWarning],
       [Code |-> "select_without_limit", Level |-> LevelInfo],
       [Code |-> "like_leading_wildcard", Level |-> LevelWarning],
       [Code |-> "order_by_rand", Level |-> LevelWarning],
       [Code |-> "into_outfile", Level |-> LevelError],
       [Code |-> "insert_without_column_list", Level |-> LevelInfo],
       [Code |-> "create_table_without_if_not_exists", Level |-> LevelInfo],
       [Code |-> "risky_writes_without_transaction", Level |-> LevelWarning] >>

\* The MySQL catalog in the place of the PostgreSQL one.
BuiltInPostgresRulesOfMySQL == BuiltInRules

\* engine_analyzer.go BuiltInPostgresRules
BuiltInPostgresRules ==
    << [Code |-> "empty_input", Level |-> LevelError],
       [Code |-> "too_many_statements", Level |-> LevelWarning],
       [Code |-> "missing_statement_terminator", Level |-> LevelError],
       [Code |-> "fullwidth_statement_terminator", Level |-> LevelError],
       [Code |-> "pg_dangerous_drop", Level |-> LevelError],
       [Code |-> "pg_dangerous_truncate", Level |-> LevelError],
       [Code |-> "pg_update_without_where", Level |-> LevelError],
       [Code |-> "pg_delete_without_where", Level |-> LevelError],
       [Code |-> "pg_select_star", Level |-> LevelWarning],
       [Code |-> "pg_select_without_limit", Level |-> LevelInfo],
       [Code |-> "pg_like_leading_wildcard", Level |-> LevelWarning],
       [Code |-> "pg_create_index_without_concurrently", Level |-> LevelWarning],
       [Code |-> "risky_writes_without_transaction", Level |-> LevelWarning] >>

\* engine_analyzer.go BuiltInMongoRules
BuiltInMongoRules ==
    << [Code |-> "empty_input", Level |-> LevelError],
       [Code |-> "mongo_update_many_without_filter", Level |-> LevelError],
       [Code |-> "mongo_delete_many_without_filter", Level |-> LevelError],
       [Code |-> "mongo_missing_statement_terminator", Level |-> LevelError],
       [Code |-> "fullwidth_statement_terminator", Level |-> LevelError],
       [Code |-> "mongo_find_without_limit", Level |-> LevelInfo],
       [Code |-> "mongo_where_operator", Level |-> LevelWarning],
       [Code |-> "mongo_aggregate_out_merge", Level |-> LevelWarning] >>

\* engine_analyzer.go RulesForEngine: the catalog it returns with the
\* version.
RulesForEngineCatalog(eng) ==
    IF NormalizeEngine(eng) = EnginePostgreSQL THEN BuiltInPostgresRules
    ELSE IF NormalizeEngine(eng) = EngineMongoDB THEN BuiltInMongoRules
    ELSE BuiltInRules

\* engine_analyzer.go AnalyzeByEngine
AnalyzeByEngine(eng, runes, opts) ==
    IF NormalizeEngine(eng) = EnginePostgreSQL THEN AnalyzePostgresWithOptions(runes, opts)
    ELSE IF NormalizeEngine(eng) = EngineMongoDB THEN AnalyzeMongoWithOptions(runes, opts)
    ELSE AnalyzeSQLWithOptions(runes, opts)

(***************************************************************************)
(* The check handler (main.go)                                              *)
(***************************************************************************)

\* main.go alwaysEnabledRules, as the program sets it at start.
AlwaysEnabledRuleCodes ==
    {"empty_input", "missing_statement_terminator", "mongo_missing_statement_terminator",
     "fullwidth_statement_terminator"}

\* The rule codes of the model in the order sort.Strings puts them (byte
\* order: upper case before lower case).
RuleCodeOrder ==
    <<"EMPTY_INPUT", "alter_drop_column", "create_table_without_if_not_exists",
      "custom_rule", "dangerous_drop", "dangerous_truncate", "delete_without_where",
      "empty_input", "fullwidth_statement_terminator", "insert_without_column_list",
      "into_outfile", "like_leading_wildcard", "missing_statement_terminator",
      "mongo_aggregate_out_merge", "mongo_delete_many_without_filter",
      "mongo_find_without_limit", "mongo_missing_statement_terminator",
      "mongo_update_many_without_filter", "mongo_where_operator", "order_by_rand",
      "pg_create_index_without_concurrently", "pg_dangerous_drop",
      "pg_dangerous_truncate", "pg_delete_without_where", "pg_like_leading_wildcard",
      "pg_select_star", "pg_select_without_limit", "pg_update_without_where",
      "risky_writes_without_transaction", "routine_definition_detected", "select_star",
      "select_without_limit", "too_many_statements", "update_without_where",
      "where_1_eq_1">>

\* The sequences that hold each element of a set once: the orders in which
\* a range loop may visit the keys of a map.
RECURSIVE MapOrders(_)
MapOrders(keys) ==
    IF keys = {} THEN {<<>>}
    ELSE UNION {{<<k>> \o rest : rest \in MapOrders(keys \ {k})} : k \in keys}

\* The codes removed, in the order the loop over alwaysEnabledRules met them.
RemovedInOrder(disabled, order) ==
    LET Found(k) == order[k] \in disabled
    IN SelectSeqIdx(order, Found, 1)

LeaveUnsorted(codes) == codes

\* sort.Strings on a sequence of rule codes.
SortStrings(codes) ==
    LET Listed(k) == \E j \in 1..Len(codes) : codes[j] = RuleCodeOrder[k]
    IN SelectSeqIdx(RuleCodeOrder, Listed, 1)

EnforceWithoutDelete(disabled, always, order) ==
    [disabled |-> disabled,
     removed |-> IF disabled = NilMap \/ disabled = {} THEN <<>>
                 ELSE SortStrings(RemovedInOrder(disabled, order)),
     alwaysEnabledRules |-> always]

\* main.go enforceAlwaysEnabledRules: the map as the call leaves it, the
\* slice it returns and the package's alwaysEnabledRules after the call;
\* order is the order in which the range over alwaysEnabledRules visits it.
enforceAlwaysEnabledRules(disabled, always, order) ==
    IF disabled = NilMap \/ disabled = {}
    THEN [disabled |-> disabled, removed |-> <<>>, alwaysEnabledRules |-> always]
    ELSE [disabled |-> disabled \ {order[k] : k \in 1..Len(order)},
          removed |-> SortStrings(RemovedInOrder(disabled, order)),
          alwaysEnabledRules |-> always]

\* Some order of the keys of a map, for a result that does not depend on it.
RECURSIVE KeysOf(_)
KeysOf(keys) ==
    IF keys = {} THEN <<>>
    ELSE LET k == CHOOSE x \in keys : TRUE IN <<k>> \o KeysOf(keys \ {k})

\* main.go disabledRulesToSlice
disabledRulesToSlice(disabled) == SortStrings(KeysOf(disabled))

\* The codes of a list of raw codes, trimmed, the empty ones dropped (the
\* loops of handleCheck and parseDisabledRulesString).
RequestedCodes(list) ==
    {TrimSpace(list[k])[1] : k \in {j \in 1..Len(list) : TrimSpace(list[j]) # <<>>}}

NumCallers == 2

Callers == 1..NumCallers

\* A caller that is in no call.
IdleCall ==
    [pc |-> "idle", made |-> 0, engine |-> <<>>, content |-> <<>>,
     options |-> [DisabledRules |-> NilMap], statements |-> <<>>, issues |-> <<>>,
     report |-> [RulesVersion |-> "", Summary |-> summarizeIssues(0, <<>>),
                 Issues |-> <<>>, Advice |-> <<>>],
     checkedAt |-> 0]

NoCalls == [c \in Callers |-> IdleCall]

\* No call of the splitter yet.
NoSegments == [statements |-> <<>>, scan |-> SplitInit]

\* The zero CheckResponse.
NoResult ==
    [RulesVersion |-> "", Summary |-> summarizeIssues(0, <<>>), Issues |-> <<>>,
     Advice |-> <<>>]

NoRequest ==
    [Method |-> "", ContentType |-> <<>>, QueryEngine |-> <<>>, Engine |-> <<>>,
     SQL |-> <<>>, DisabledRules |-> <<>>, Decodes |-> FALSE, RulesDecode |-> FALSE,
     HasFile |-> FALSE, FileName |-> <<>>, FileType |-> <<>>, FileBody |-> <<>>]

NoResponse ==
    [Status |-> 0, Error |-> "", HistoryID |-> 0, HistoryWarning |-> <<>>,
     Engine |-> <<>>, Source |-> "", FileName |-> <<>>, DisabledRules |-> <<>>,
     Result |-> NoResult]

\* writeJSON(w, status, errorResponse{Error: message})
ErrorResponse(status, message) == [NoResponse EXCEPT !.Status = status, !.Error = message]

\* main.go isLikelySQLFile; a file name is written <<base, extension>>.
isLikelySQLFile(name, partType) ==
    \/ ToLower(name)[Len(name)] \in {".sql", ".txt", ".js", ".mongo"}
    \/ Contains(ToLower(partType), <<"sql">>)
    \/ Contains(ToLower(partType), <<"text/plain">>)

\* main.go readSQLFromUpload
readSQLFromUpload(r) ==
    LET Failed(message) ==
            [err |-> message, SQLContent |-> <<>>, Source |-> "", FileName |-> <<>>,
             Engine |-> <<>>, DisabledRules |-> {}]
        Read(sql, source, fileName) ==
            [err |-> "", SQLContent |-> sql, Source |-> source, FileName |-> fileName,
             Engine |-> NormalizeEngine(r.Engine),
             DisabledRules |-> RequestedCodes(r.DisabledRules)]
    IN IF ~r.Decodes THEN Failed("failed to parse upload form")
       ELSE IF ~r.RulesDecode THEN Failed("invalid disabledRules payload")
       ELSE IF TrimSpace(r.SQL) # <<>> THEN Read(TrimSpace(r.SQL), "paste", <<>>)
       ELSE IF ~r.HasFile THEN Failed("missing file field: file")
       ELSE IF ~isLikelySQLFile(r.FileName, r.FileType) THEN Failed("unsupported file type")
       ELSE IF TrimSpace(r.FileBody) = <<>> THEN Failed("uploaded file is empty")
       ELSE Read(r.FileBody, "upload", r.FileName)

\* The switch of handleCheck on the content type: what the request carries.
ReadCheckRequest(r) ==
    LET Failed(message) ==
            [err |-> message, SQLContent |-> <<>>, Source |-> "", FileName |-> <<>>,
             Engine |-> <<>>, DisabledRules |-> {}]
    IN IF Contains(r.ContentType, <<"application/json">>)
       THEN IF ~r.Decodes THEN Failed("invalid json payload")
            ELSE [err |-> "", SQLContent |-> r.SQL, Source |-> "paste", FileName |-> <<>>,
                  Engine |-> NormalizeEngine(r.Engine),
                  DisabledRules |-> RequestedCodes(r.DisabledRules)]
       ELSE IF Contains(r.ContentType, <<"multipart/form-data">>) THEN readSQLFromUpload(r)
       ELSE IF Contains(r.ContentType, <<"text/plain">>)
       THEN IF ~r.Decodes THEN Failed("cannot read request body")
            ELSE [err |-> "", SQLContent |-> r.SQL, Source |-> "paste", FileName |-> <<>>,
                  Engine |-> NormalizeEngine(r.QueryEngine), DisabledRules |-> {}]
       ELSE Failed("unsupported content type")

\* What historyStore.Save can do: store the record and return its id, fail
\* to insert, or insert and fail to read the id back.
SaveOutcomes == {"saved", "insert failed", "id query failed"}

\* storage.go HistoryStore.Save: the store after the call and the id it
\* returns (0 with an error).
Save(store, input, outcome) ==
    LET id == Len(store) + 1
        row == [ID |-> id, Engine |-> NormalizeEngine(input.Engine),
                Source |-> input.Source, FileName |-> input.FileName,
                SQLText |-> input.SQLText, DisabledRules |-> input.DisabledRules,
                CheckResult |-> input.CheckResult]
    IN IF outcome = "insert failed" THEN [store |-> store, id |-> 0, err |-> TRUE]
       ELSE IF outcome = "id query failed"
       THEN [store |-> Append(store, row), id |-> 0, err |-> TRUE]
       ELSE [store |-> Append(store, row), id |-> id, err |-> FALSE]

\* storage.go HistoryStore.DeleteByIDs, the loop over ids: the positive ids
\* in the order of their first occurrence.
RECURSIVE normalizedIDs(_)
normalizedIDs(ids) ==
    IF ids = <<>> THEN <<>>
    ELSE LET n == Len(ids)
             front == normalizedIDs(SubSeq(ids, 1, n - 1))
         IN IF ids[n] <= 0 \/ (\E k \in 1..Len(front) : front[k] = ids[n])
            THEN front
            ELSE Append(front, ids[n])

\* A count that takes every listed id for a stored record.
countListedIDs(store, whereIn) == Len(whereIn)

\* SELECT COUNT(1) AS total FROM review_history WHERE id IN (whereIn)
countRows(store, whereIn) ==
    Cardinality({k \in 1..Len(store) : \E j \in 1..Len(whereIn) : store[k].ID = whereIn[j]})

\* DELETE FROM review_history WHERE id IN (whereIn)
deleteRows(store, whereIn) ==
    SelectSeq(store, LAMBDA row : \A j \in 1..Len(whereIn) : row.ID # whereIn[j])

\* What one sqlite3 invocation can do: run the query, or fail.
SQLiteOutcomes == {"ok", "failed"}

\* storage.go HistoryStore.List: the page of items in descending order of id
\* (the store keeps its rows in ascending order of id) and the number of
\* stored records.
List(store, limit, offset) ==
    LET lim == IF limit <= 0 THEN 20 ELSE IF limit > 100 THEN 100 ELSE limit
        off == IF offset < 0 THEN 0 ELSE offset
        n == Len(store)
        last == IF off + lim < n THEN off + lim ELSE n
    IN [items |-> [k \in 1..(IF last > off THEN last - off ELSE 0) |->
                      [ID |-> store[n + 1 - (off + k)].ID,
                       Engine |-> NormalizeEngine(store[n + 1 - (off + k)].Engine),
                       Source |-> store[n + 1 - (off + k)].Source,
                       FileName |-> store[n + 1 - (off + k)].FileName]],
        total |-> n]

\* storage.go HistoryStore.GetByID
GetByID(store, id) ==
    LET rows == SelectSeq(store, LAMBDA row : row.ID = id)
    IN IF Len(rows) = 0 THEN [err |-> "ErrHistoryNotFound", ID |-> 0]
       ELSE [err |-> "", ID |-> rows[1].ID]

\* main.go handleCheck from the call of enforceAlwaysEnabledRules on: the
\* state the handler leaves and the response it writes.
CheckAndRespond(read, always, store, order, outcome) ==
    LET Respond(enforced, report, saved) ==
            [content |-> read.SQLContent,
             engine |-> read.Engine,
             options |-> [DisabledRules |-> enforced.disabled],
             forcedRules |-> enforced.removed,
             alwaysEnabledRules |-> enforced.alwaysEnabledRules,
             result |-> report,
             history |-> saved.store,
             response |->
                 [Status |-> 200, Error |-> "", HistoryID |-> saved.id,
                  HistoryWarning |->
                      (IF Len(enforced.removed) > 0 THEN <<enforced.removed>> ELSE <<>>)
                      \o (IF saved.err THEN <<"save failed">> ELSE <<>>),
                  Engine |-> read.Engine, Source |-> read.Source,
                  FileName |-> read.FileName,
                  DisabledRules |-> disabledRulesToSlice(enforced.disabled),
                  Result |-> report]]
        Saved(enforced, report) ==
            Respond(enforced, report,
                    Save(store,
                         [Engine |-> read.Engine, Source |-> read.Source,
                          FileName |-> read.FileName, SQLText |-> read.SQLContent,
                          DisabledRules |-> disabledRulesToSlice(enforced.disabled),
                          CheckResult |-> report],
                         outcome))
        Analyzed(enforced) ==
            Saved(enforced,
                  AnalyzeByEngine(read.Engine, read.SQLContent,
                                  [DisabledRules |-> enforced.disabled]))
    IN Analyzed(enforceAlwaysEnabledRules(read.DisabledRules, always, order))

(***************************************************************************)
(* The scripts, selectors and options the specifications draw from          *)
(***************************************************************************)

MaxParts == 4

\* The pieces a script is put together from.
Parts ==
    <<
      <<"SELECT", " ", "*", " ", "FROM", " ", "t">>,
      <<"UPDATE", " ", "t", " ", "SET", " ", "x">>,
      <<";">>,
      <<FullwidthSemicolon>>,
      <<"\n">>,
      <<"'">>,
      <<"db", ".", "t", ".", "find", "(", "{", "$where", "}", ")">>
    >>

RECURSIVE ScriptsOf(_, _)
ScriptsOf(parts, n) ==
    IF n = 0 THEN {<<>>}
    ELSE LET shorter == ScriptsOf(parts, n - 1)
         IN shorter \cup {s \o parts[k] : s \in shorter, k \in 1..Len(parts)}

Scripts == ScriptsOf(Parts, MaxParts)

\* Engine selectors as a caller writes them.
Selectors == {<<"mysql">>, <<" ", "PG">>, <<"mongo">>, <<"oracle">>}

\* The disabled sets a caller of AnalyzeByEngine passes.
DisabledChoices ==
    {NilMap, {},
     {"select_star", "pg_select_without_limit", "mongo_find_without_limit"},
     {"empty_input", "fullwidth_statement_terminator", "update_without_where"}}

(***************************************************************************)
(* Spec: one call of AnalyzeByEngine                                        *)
(***************************************************************************)

Init ==
    /\ content \in Scripts
    /\ engine \in Selectors
    /\ options \in {[DisabledRules |-> d] : d \in DisabledChoices}
    /\ request = NoRequest
    /\ result = NoResult
    /\ pc = "start"
    /\ alwaysEnabledRules = AlwaysEnabledRuleCodes
    /\ forcedRules = <<>>
    /\ response = NoResponse
    /\ history = <<>>
    /\ segments = NoSegments
    /\ calls = NoCalls
    /\ clock = 0
    /\ reports = {}

\* A caller's AnalyzeByEngine(engine, content, options) returns.
Analyze ==
    /\ pc = "start"
    /\ request = NoRequest
    /\ result' = AnalyzeByEngine(engine, content, options)
    /\ pc' = "done"
    /\ UNCHANGED <<request, content, engine, options, alwaysEnabledRules, forcedRules,
                   response, history, segments, callVars>>

Next == Analyze

Spec == Init /\ [][Next]_vars

(***************************************************************************)
(* SpecCheck: one check request, or one direct call of AnalyzeByEngine or   *)
(* of enforceAlwaysEnabledRules                                             *)
(***************************************************************************)

MaxCheckParts == 2

CheckParts ==
    <<
      <<"SELECT", " ", "*", " ", "FROM", " ", "t">>,
      <<FullwidthSemicolon>>,
      <<"\n">>,
      <<"db", ".", "t", ".", "find", "(", ")", "\n", "db", ".", "t", ".", "find", "(", ")">>
    >>

CheckScripts == ScriptsOf(CheckParts, MaxCheckParts)

CheckSelectors == {<<"mysql">>, <<"Postgres">>, <<"MongoDB", " ">>}

\* The disabledRules lists of the requests, as the client wrote them.
RawDisabledLists ==
    { <<>>,
      << <<"select_star">>, <<" ", "empty_input", " ">>, <<" ">>,
         <<"fullwidth_statement_terminator">> >>,
      << <<"mongo_missing_statement_terminator">>, <<"missing_statement_terminator">>,
         <<"mongo_find_without_limit">>, <<"missing_statement_terminator">> >> }

JSONType == <<"application/json", ";", " ", "charset=utf-8">>

MultipartType == <<"multipart/form-data", ";", " ", "boundary=x">>

TextType == <<"text/plain">>

A_Script == <<"SELECT", " ", "*", " ", "FROM", " ", "t", FullwidthSemicolon>>

PostJSON(eng, sql, list) ==
    [NoRequest EXCEPT !.Method = "POST", !.ContentType = JSONType,
                      !.QueryEngine = <<"mongo">>, !.Engine = eng, !.SQL = sql,
                      !.DisabledRules = list, !.Decodes = TRUE, !.RulesDecode = TRUE]

PostText(eng, sql) ==
    [NoRequest EXCEPT !.Method = "POST", !.ContentType = TextType, !.QueryEngine = eng,
                      !.SQL = sql, !.Decodes = TRUE, !.RulesDecode = TRUE]

PostForm(sql, list, hasFile, name, partType, body) ==
    [NoRequest EXCEPT !.Method = "POST", !.ContentType = MultipartType,
                      !.Engine = <<"pg">>, !.SQL = sql, !.DisabledRules = list,
                      !.Decodes = TRUE, !.RulesDecode = TRUE, !.HasFile = hasFile,
                      !.FileName = name, !.FileType = partType, !.FileBody = body]

Requests ==
    {PostJSON(eng, sql, list) :
         eng \in CheckSelectors, sql \in CheckScripts, list \in RawDisabledLists}
    \cup {PostText(eng, A_Script) : eng \in CheckSelectors}
    \cup {PostForm(sql, list, hasFile, name, <<"application/octet-stream">>, body) :
              sql \in {<<>>, <<" ", "\n">> \o A_Script},
              list \in RawDisabledLists,
              hasFile \in BOOLEAN,
              name \in {<<"dump", ".SQL">>, <<"dump", ".exe">>},
              body \in {<<"\n">>, A_Script}}
    \cup {[PostJSON(<<"mysql">>, A_Script, <<>>) EXCEPT !.Method = "GET"],
          [PostJSON(<<"mysql">>, A_Script, <<>>) EXCEPT !.Decodes = FALSE],
          [PostJSON(<<"mysql">>, A_Script, <<>>) EXCEPT !.ContentType = <<"text/html">>],
          [PostText(<<"mysql">>, A_Script) EXCEPT !.Decodes = FALSE],
          [PostForm(A_Script, <<>>, FALSE, <<>>, <<>>, <<>>) EXCEPT !.Decodes = FALSE],
          [PostForm(A_Script, <<>>, FALSE, <<>>, <<>>, <<>>) EXCEPT !.RulesDecode = FALSE],
          PostForm(<<>>, <<>>, TRUE, <<"dump", ".exe">>, <<"application/sql">>, A_Script)}

\* The disabled maps handed to a direct call.
DirectDisabledChoices ==
    {NilMap, {}, {"select_star"},
     {"missing_statement_terminator", "mongo_missing_statement_terminator", "select_star"},
     AlwaysEnabledRuleCodes,
     {"empty_input", "fullwidth_statement_terminator", "custom_rule", "EMPTY_INPUT"}}

InitCheck ==
    /\ \/ /\ request \in Requests
          /\ content = <<>>
          /\ engine = <<>>
          /\ options = [DisabledRules |-> {}]
       \/ /\ request = NoRequest
          /\ content \in CheckScripts
          /\ engine \in CheckSelectors
          /\ options \in {[DisabledRules |-> d] : d \in DirectDisabledChoices}
    /\ result = NoResult
    /\ pc = "start"
    /\ alwaysEnabledRules = AlwaysEnabledRuleCodes
    /\ forcedRules = <<>>
    /\ response = NoResponse
    /\ history = <<>>
    /\ segments = NoSegments
    /\ calls = NoCalls
    /\ clock = 0
    /\ reports = {}

\* A caller's enforceAlwaysEnabledRules(options.DisabledRules) returns.
EnforceCall ==
    /\ pc = "start"
    /\ request = NoRequest
    /\ \E order \in MapOrders(alwaysEnabledRules) :
           LET Leave(enforced) ==
                   /\ options' = [DisabledRules |-> enforced.disabled]
                   /\ forcedRules' = enforced.removed
                   /\ alwaysEnabledRules' = enforced.alwaysEnabledRules
           IN Leave(enforceAlwaysEnabledRules(options.DisabledRules, alwaysEnabledRules,
                                              order))
    /\ pc' = "enforced"
    /\ UNCHANGED <<request, content, engine, result, response, history, segments, callVars>>

\* main.go handleCheck serves the request.
handleCheck ==
    /\ pc = "start"
    /\ request # NoRequest
    /\ pc' = "responded"
    /\ LET Rejected(status, message) ==
               /\ response' = ErrorResponse(status, message)
               /\ UNCHANGED <<content, engine, options, result, alwaysEnabledRules,
                              forcedRules, history>>
           Leave(done) ==
               /\ content' = done.content
               /\ engine' = done.engine
               /\ options' = done.options
               /\ forcedRules' = done.forcedRules
               /\ alwaysEnabledRules' = done.alwaysEnabledRules
               /\ result' = done.result
               /\ history' = done.history
               /\ response' = done.response
           Serve(read) ==
               IF read.err # "" THEN Rejected(400, read.err)
               ELSE \E order \in MapOrders(alwaysEnabledRules), outcome \in SaveOutcomes :
                        Leave(CheckAndRespond(read, alwaysEnabledRules, history, order,
                                              outcome))
       IN IF request.Method # "POST" THEN Rejected(405, "only POST is allowed")
          ELSE Serve(ReadCheckRequest(request))
    /\ UNCHANGED <<request, segments, callVars>>

NextCheck == handleCheck \/ Analyze \/ EnforceCall

SpecCheck == InitCheck /\ [][NextCheck]_vars

(***************************************************************************)
(* SpecSplit: one call of splitSQLStatements on a script written rune by    *)
(* rune                                                                     *)
(***************************************************************************)

MaxLen == 4

\* The runes the scripts are written with: the quotes, the backslash, the
\* two terminators, the runes comments are opened and closed with, the line
\* end and one letter.
SplitRunes ==
    << <<"'">>, <<"\"">>, <<Backquote>>, <<"\\">>, <<";">>, <<FullwidthSemicolon>>,
       <<"-">>, <<"#">>, <<"/">>, <<"*">>, <<"\n">>, <<"a">> >>

SplitScripts == ScriptsOf(SplitRunes, MaxLen)

InitSplit ==
    /\ content \in SplitScripts
    /\ engine = EngineMySQL
    /\ options = [DisabledRules |-> NilMap]
    /\ request = NoRequest
    /\ result = NoResult
    /\ pc = "start"
    /\ alwaysEnabledRules = AlwaysEnabledRuleCodes
    /\ forcedRules = <<>>
    /\ response = NoResponse
    /\ history = <<>>
    /\ segments = NoSegments
    /\ calls = NoCalls
    /\ clock = 0
    /\ reports = {}

\* A caller's splitSQLStatements(content) returns; scan keeps the scanner's
\* variables as the last line left them.
Split ==
    /\ pc = "start"
    /\ segments' = [statements |-> splitSQLStatements(content), scan |-> SplitFinal(content)]
    /\ pc' = "split"
    /\ UNCHANGED <<request, content, engine, options, result, alwaysEnabledRules,
                   forcedRules, response, history, callVars>>

NextSplit == Split

SpecSplit == InitSplit /\ [][NextSplit]_vars

(***************************************************************************)
(* SpecDelimiter: one call of splitSQLStatements on a script written line   *)
(* by line, with DELIMITER directives                                       *)
(***************************************************************************)

MaxDelimiterParts == 5

\* The pieces the scripts are put together from: a directive that makes $$
\* the terminator, one in lower case that restores ;, text ended by each of
\* the three terminators, a line end, a quote and a block-comment opener.
DelimiterParts ==
    << <<"DELIMITER", " ", "$", "$", "\n">>,
       <<"delimiter", " ", ";", "\n">>,
       <<"a", ";">>,
       <<"a", ";", "b", "$", "$", "\n">>,
       <<"c", FullwidthSemicolon>>,
       <<"\n">>,
       <<"'">>,
       <<"/", "*">> >>

DelimiterScripts == ScriptsOf(DelimiterParts, MaxDelimiterParts)

InitDelimiter ==
    /\ content \in DelimiterScripts
    /\ engine = EngineMySQL
    /\ options = [DisabledRules |-> NilMap]
    /\ request = NoRequest
    /\ result = NoResult
    /\ pc = "start"
    /\ alwaysEnabledRules = AlwaysEnabledRuleCodes
    /\ forcedRules = <<>>
    /\ response = NoResponse
    /\ history = <<>>
    /\ segments = NoSegments
    /\ calls = NoCalls
    /\ clock = 0
    /\ reports = {}

NextDelimiter == Split

SpecDelimiter == InitDelimiter /\ [][NextDelimiter]_vars

(***************************************************************************)
(* SpecSegment: one call of each segmenter on the same script               *)
(***************************************************************************)

InitSegment ==
    /\ content \in Scripts
    /\ engine = EngineMySQL
    /\ options = [DisabledRules |-> NilMap]
    /\ request = NoRequest
    /\ result = NoResult
    /\ pc = "start"
    /\ alwaysEnabledRules = AlwaysEnabledRuleCodes
    /\ forcedRules = <<>>
    /\ response = NoResponse
    /\ history = <<>>
    /\ segments = NoSegments
    /\ calls = NoCalls
    /\ clock = 0
    /\ reports = {}

\* A caller's calls of the four segmenters on content return.
SegmentAll ==
    /\ pc = "start"
    /\ segments' = [statements |-> splitSQLStatements(content),
                    detailed |-> splitSQLByLineStartHeuristicDetailed(content),
                    operations |-> parseMongoOperations(content),
                    operationTexts |-> splitMongoOperations(content)]
    /\ pc' = "segmented"
    /\ UNCHANGED <<request, content, engine, options, result, alwaysEnabledRules,
                   forcedRules, response, history, callVars>>

NextSegment == SegmentAll

SpecSegment == InitSegment /\ [][NextSegment]_vars

(***************************************************************************)
(* SpecExempt: one call of AnalyzeByEngine, for MySQL or PostgreSQL, on a   *)
(* script written with routine definitions and DELIMITER directives         *)
(***************************************************************************)

MaxExemptParts == 4

\* The pieces the scripts are put together from: a routine definition, a
\* directive with a space and one with a tab after the keyword, a query on
\* a column named DELIMITER, a plain statement, the two terminators in use
\* and a line end.
ExemptParts ==
    << <<"CREATE", " ", "FUNCTION", " ", "f">>,
       <<"DELIMITER", " ", "$", "$", "\n">>,
       <<"DELIMITER", "\t", "$", "$", "\n">>,
       <<"SELECT", " ", "DELIMITER", " ", "FROM", " ", "t">>,
       <<"UPDATE", " ", "t", " ", "SET", " ", "x">>,
       <<";">>,
       <<"$", "$">>,
       <<"\n">> >>

ExemptScripts == ScriptsOf(ExemptParts, MaxExemptParts)

SQLSelectors == {<<"mysql">>, <<"postgresql">>}

InitExempt ==
    /\ content \in ExemptScripts
    /\ engine \in SQLSelectors
    /\ options = [DisabledRules |-> NilMap]
    /\ request = NoRequest
    /\ result = NoResult
    /\ pc = "start"
    /\ alwaysEnabledRules = AlwaysEnabledRuleCodes
    /\ forcedRules = <<>>
    /\ response = NoResponse
    /\ history = <<>>
    /\ segments = NoSegments
    /\ calls = NoCalls
    /\ clock = 0
    /\ reports = {}

NextExempt == Analyze

SpecExempt == InitExempt /\ [][NextExempt]_vars

(***************************************************************************)
(* SpecTerminator: one call of AnalyzeByEngine on a script of statements    *)
(* that are ended by ;, by the full-width semicolon, by a line end or by    *)
(* nothing                                                                  *)
(***************************************************************************)

MaxTerminatorParts == 6

TerminatorParts ==
    << <<"SELECT", " ", "*", " ", "FROM", " ", "t">>,
       <<"UPDATE", " ", "t", " ", "SET", " ", "x">>,
       <<";">>,
       <<FullwidthSemicolon>>,
       <<"\n">> >>

TerminatorScripts == ScriptsOf(TerminatorParts, MaxTerminatorParts)

EngineSelectors == {<<"mysql">>, <<"postgresql">>, <<"mongodb">>}

InitTerminator ==
    /\ content \in TerminatorScripts
    /\ engine \in EngineSelectors
    /\ options = [DisabledRules |-> NilMap]
    /\ request = NoRequest
    /\ result = NoResult
    /\ pc = "start"
    /\ alwaysEnabledRules = AlwaysEnabledRuleCodes
    /\ forcedRules = <<>>
    /\ response = NoResponse
    /\ history = <<>>
    /\ segments = NoSegments
    /\ calls = NoCalls
    /\ clock = 0
    /\ reports = {}

NextTerminator == Analyze

SpecTerminator == InitTerminator /\ [][NextTerminator]_vars

(***************************************************************************)
(* SpecSoftStart: one call of AnalyzeByEngine, for MySQL or PostgreSQL, on  *)
(* a script of statements that span lines                                   *)
(***************************************************************************)

MaxSoftStartParts == 5

\* The pieces the scripts are put together from: the head of a statement
\* with a common table expression (WITH, an indented inner SELECT, the
\* closing bracket, each on a line of its own), a SELECT, a string literal
\* followed by the word UPDATE, the head of an INSERT, a line end and the
\* terminator.
SoftStartParts ==
    << <<"WITH", " ", "c", " ", "AS", " ", "(", "\n", " ", " ", "SELECT", " ", "x", "\n",
         ")", "\n">>,
       <<"SELECT", " ", "x">>,
       <<"'", "a", "'", " ", "UPDATE">>,
       <<"INSERT", " ", "INTO", " ", "t">>,
       <<"\n">>,
       <<";">> >>

SoftStartScripts == ScriptsOf(SoftStartParts, MaxSoftStartParts)

InitSoftStart ==
    /\ content \in SoftStartScripts
    /\ engine \in SQLSelectors
    /\ options = [DisabledRules |-> NilMap]
    /\ request = NoRequest
    /\ result = NoResult
    /\ pc = "start"
    /\ alwaysEnabledRules = AlwaysEnabledRuleCodes
    /\ forcedRules = <<>>
    /\ response = NoResponse
    /\ history = <<>>
    /\ segments = NoSegments
    /\ calls = NoCalls
    /\ clock = 0
    /\ reports = {}

NextSoftStart == Analyze

SpecSoftStart == InitSoftStart /\ [][NextSoftStart]_vars

(***************************************************************************)
(* SpecEngine: one call of AnalyzeByEngine under every spelling of the      *)
(* engine selector                                                          *)
(***************************************************************************)

\* The names a caller writes: the aliases of the three engines in lower,
\* upper and mixed case, and names of no engine.
SelectorWords ==
    {"mysql", "MySQL", "pg", "PG", "postgres", "Postgres", "postgresql", "POSTGRESQL",
     "mongo", "Mongo", "mongodb", "MongoDB", "oracle", "unknown"}

\* The whitespace around a name.
SelectorSpaces == {<<>>, <<" ">>, <<"\t">>, <<"\n">>, <<" ", "\t">>}

EngineSelectorSpellings ==
    {pre \o word \o post :
        pre \in SelectorSpaces, post \in SelectorSpaces,
        word \in {<<>>} \cup {<<w>> : w \in SelectorWords}}

EngineScripts == ScriptsOf(CheckParts, 1)

InitEngine ==
    /\ content \in EngineScripts
    /\ engine \in EngineSelectorSpellings
    /\ options = [DisabledRules |-> NilMap]
    /\ request = NoRequest
    /\ result = NoResult
    /\ pc = "start"
    /\ alwaysEnabledRules = AlwaysEnabledRuleCodes
    /\ forcedRules = <<>>
    /\ response = NoResponse
    /\ history = <<>>
    /\ segments = NoSegments
    /\ calls = NoCalls
    /\ clock = 0
    /\ reports = {}

NextEngine == Analyze

SpecEngine == InitEngine /\ [][NextEngine]_vars

(***************************************************************************)
(* SpecWhere: one call of AnalyzeByEngine, for MySQL or PostgreSQL, on a    *)
(* script of UPDATE and DELETE statements with and without a WHERE clause   *)
(***************************************************************************)

MaxWhereParts == 4

\* The pieces the scripts are put together from: an UPDATE and a DELETE
\* without filter, the three kinds of whitespace, a WHERE clause with a
\* space and one with a line end after the keyword, and the terminator.
WhereParts ==
    << <<"UPDATE", " ", "t", " ", "SET", " ", "x">>,
       <<"DELETE", " ", "FROM", " ", "t">>,
       <<" ">>,
       <<"\n">>,
       <<"\t">>,
       <<"where", " ", "x">>,
       <<"WHERE", "\n", "x">>,
       <<";">> >>

WhereScripts == ScriptsOf(WhereParts, MaxWhereParts)

InitWhere ==
    /\ content \in WhereScripts
    /\ engine \in SQLSelectors
    /\ options = [DisabledRules |-> NilMap]
    /\ request = NoRequest
    /\ result = NoResult
    /\ pc = "start"
    /\ alwaysEnabledRules = AlwaysEnabledRuleCodes
    /\ forcedRules = <<>>
    /\ response = NoResponse
    /\ history = <<>>
    /\ segments = NoSegments
    /\ calls = NoCalls
    /\ clock = 0
    /\ reports = {}

NextWhere == Analyze

SpecWhere == InitWhere /\ [][NextWhere]_vars

(***************************************************************************)
(* SpecDelete: one call of HistoryStore.DeleteByIDs on a store of records   *)
(***************************************************************************)

MaxHistoryRows == 3

MaxDeleteIDs == 4

\* The record Save stored under an id.
HistoryRow(id) ==
    [ID |-> id, Engine |-> EngineMySQL, Source |-> "paste", FileName |-> <<>>,
     SQLText |-> <<"SELECT", " ", "1", ";">>, DisabledRules |-> {},
     CheckResult |-> NoResult]

\* The store that holds the records of the ids, in ascending order of id.
HistoryOf(ids) ==
    SelectSeq([id \in 1..MaxHistoryRows |-> HistoryRow(id)], LAMBDA row : row.ID \in ids)

\* The ids a caller lists: ids of records, 0, a negative id.
DeleteIDLists(n) == UNION {[1..m -> (-1)..MaxHistoryRows] : m \in 0..n}

\* A call of DeleteByIDs(ids) that has not begun.
DeleteCall(ids) ==
    [pc |-> "start", ids |-> ids, whereIn |-> <<>>, total |-> 0, deleted |-> 0,
     err |-> FALSE, before |-> <<>>]

InitDelete ==
    /\ history \in {HistoryOf(ids) : ids \in SUBSET (1..MaxHistoryRows)}
    /\ calls \in {[c \in {1} |-> DeleteCall(ids)] : ids \in DeleteIDLists(MaxDeleteIDs)}
    /\ content = <<>>
    /\ engine = <<>>
    /\ options = [DisabledRules |-> NilMap]
    /\ request = NoRequest
    /\ result = NoResult
    /\ pc = "start"
    /\ alwaysEnabledRules = AlwaysEnabledRuleCodes
    /\ forcedRules = <<>>
    /\ response = NoResponse
    /\ segments = NoSegments
    /\ clock = 0
    /\ reports = {}

\* DeleteByIDs of caller c returns deleted (and an error if err).
DeleteReturn(c, deleted, err, whereIn) ==
    calls' = [calls EXCEPT ![c].pc = "returned", ![c].deleted = deleted, ![c].err = err,
                           ![c].whereIn = whereIn, ![c].before = history]

\* Caller c enters DeleteByIDs: the ids are normalized and the count query
\* runs (one sqlite3 invocation).
DeleteByIDsCount(c) ==
    /\ calls[c].pc = "start"
    /\ \E outcome \in SQLiteOutcomes :
         LET Counted(whereIn, total) ==
                 IF Len(calls[c].ids) = 0 \/ Len(whereIn) = 0
                 THEN DeleteReturn(c, 0, FALSE, whereIn)
                 ELSE IF outcome = "failed" THEN DeleteReturn(c, 0, TRUE, whereIn)
                 ELSE IF total <= 0 THEN DeleteReturn(c, 0, FALSE, whereIn)
                 ELSE calls' = [calls EXCEPT ![c].pc = "counted", ![c].whereIn = whereIn,
                                             ![c].total = total, ![c].before = history]
             Normalized(whereIn) == Counted(whereIn, countRows(history, whereIn))
         IN Normalized(normalizedIDs(calls[c].ids))
    /\ UNCHANGED <<request, content, engine, options, result, pc, alwaysEnabledRules,
                   forcedRules, response, history, segments, clock, reports>>

\* The delete query of caller c runs (a second sqlite3 invocation) and the
\* call returns the total it counted.
DeleteByIDsExec(c) ==
    /\ calls[c].pc = "counted"
    /\ \E outcome \in SQLiteOutcomes :
         IF outcome = "failed"
         THEN /\ calls' = [calls EXCEPT ![c].pc = "returned", ![c].deleted = 0,
                                         ![c].err = TRUE]
              /\ UNCHANGED history
         ELSE /\ history' = deleteRows(history, calls[c].whereIn)
              /\ calls' = [calls EXCEPT ![c].pc = "returned",
                                         ![c].deleted = calls[c].total]
    /\ UNCHANGED <<request, content, engine, options, result, pc, alwaysEnabledRules,
                   forcedRules, response, segments, clock, reports>>

NextDelete == DeleteByIDsCount(1) \/ DeleteByIDsExec(1)

SpecDelete == InitDelete /\ [][NextDelete]_vars

(***************************************************************************)
(* SpecDeleteConcurrent: the callers call DeleteByIDs at the same time (the *)
(* history handlers run on the goroutines of the HTTP server)               *)
(***************************************************************************)

MaxConcurrentDeleteIDs == 2

InitDeleteConcurrent ==
    /\ history = HistoryOf(1..MaxHistoryRows)
    /\ calls \in [Callers -> {DeleteCall(ids) : ids \in DeleteIDLists(MaxConcurrentDeleteIDs)}]
    /\ content = <<>>
    /\ engine = <<>>
    /\ options = [DisabledRules |-> NilMap]
    /\ request = NoRequest
    /\ result = NoResult
    /\ pc = "start"
    /\ alwaysEnabledRules = AlwaysEnabledRuleCodes
    /\ forcedRules = <<>>
    /\ response = NoResponse
    /\ segments = NoSegments
    /\ clock = 0
    /\ reports = {}

NextDeleteConcurrent == \E c \in Callers : DeleteByIDsCount(c) \/ DeleteByIDsExec(c)

SpecDeleteConcurrent == InitDeleteConcurrent /\ [][NextDeleteConcurrent]_vars

(***************************************************************************)
(* SpecMerged: one call of AnalyzeByEngine, for MySQL or PostgreSQL, on a   *)
(* script whose statements may lack their terminator                        *)
(***************************************************************************)

MaxMergedParts == 5

\* The pieces the scripts are put together from: an UPDATE, a SELECT, a line
\* end, the terminator and a block comment.
MergedParts ==
    << <<"UPDATE", " ", "t", " ", "SET", " ", "x">>,
       <<"SELECT", " ", "*", " ", "FROM", " ", "t">>,
       <<"\n">>,
       <<";">>,
       <<"/", "*", "c", "*", "/", " ">> >>

MergedScripts == ScriptsOf(MergedParts, MaxMergedParts)

InitMerged ==
    /\ content \in MergedScripts
    /\ engine \in SQLSelectors
    /\ options = [DisabledRules |-> NilMap]
    /\ request = NoRequest
    /\ result = NoResult
    /\ pc = "start"
    /\ alwaysEnabledRules = AlwaysEnabledRuleCodes
    /\ forcedRules = <<>>
    /\ response = NoResponse
    /\ history = <<>>
    /\ segments = NoSegments
    /\ calls = NoCalls
    /\ clock = 0
    /\ reports = {}

NextMerged == Analyze

SpecMerged == InitMerged /\ [][NextMerged]_vars

(***************************************************************************)
(* SpecMongo: one call of parseMongoOperations, or of AnalyzeByEngine for    *)
(* MongoDB, on a script of calls                                            *)
(***************************************************************************)

MaxMongoParts == 5

\* The pieces the scripts are put together from: the head of a call up to
\* the opening of its argument, the end of the argument and of the call, a
\* line end, the two terminators, a quote and the opener of a line comment.
MongoParts ==
    << <<"db", ".", "t", ".", "find", "(", "{">>,
       <<"}", ")">>,
       <<"\n">>,
       <<";">>,
       <<FullwidthSemicolon>>,
       <<"'">>,
       <<"/", "/">> >>

MongoScripts == ScriptsOf(MongoParts, MaxMongoParts)

InitMongo ==
    /\ content \in MongoScripts
    /\ engine = EngineMongoDB
    /\ options = [DisabledRules |-> NilMap]
    /\ request = NoRequest
    /\ result = NoResult
    /\ pc = "start"
    /\ alwaysEnabledRules = AlwaysEnabledRuleCodes
    /\ forcedRules = <<>>
    /\ response = NoResponse
    /\ history = <<>>
    /\ segments = NoSegments
    /\ calls = NoCalls
    /\ clock = 0
    /\ reports = {}

\* A caller's parseMongoOperations(content) returns.
ParseMongo ==
    /\ pc = "start"
    /\ segments' = [operations |-> parseMongoOperations(content)]
    /\ pc' = "parsed"
    /\ UNCHANGED <<request, content, engine, options, result, alwaysEnabledRules,
                   forcedRules, response, history, callVars>>

NextMongo == ParseMongo \/ Analyze

SpecMongo == InitMongo /\ [][NextMongo]_vars

(***************************************************************************)
(* SpecTransaction: one call of AnalyzeByEngine, for MySQL or PostgreSQL,   *)
(* on a script of writes, queries and transaction statements                *)
(***************************************************************************)

MaxTransactionParts == 4

\* The statements the scripts are put together from, each with its
\* terminator.
TransactionParts ==
    << <<"BEGIN", ";">>,
       <<"START", " ", "TRANSACTION", ";">>,
       <<"COMMIT", ";">>,
       <<"UPDATE", " ", "t", " ", "SET", " ", "x", ";">>,
       <<"SELECT", " ", "x", ";">> >>

TransactionScripts == ScriptsOf(TransactionParts, MaxTransactionParts)

InitTransaction ==
    /\ content \in TransactionScripts
    /\ engine \in SQLSelectors
    /\ options = [DisabledRules |-> NilMap]
    /\ request = NoRequest
    /\ result = NoResult
    /\ pc = "start"
    /\ alwaysEnabledRules = AlwaysEnabledRuleCodes
    /\ forcedRules = <<>>
    /\ response = NoResponse
    /\ history = <<>>
    /\ segments = NoSegments
    /\ calls = NoCalls
    /\ clock = 0
    /\ reports = {}

NextTransaction == Analyze

SpecTransaction == InitTransaction /\ [][NextTransaction]_vars

(***************************************************************************)
(* SpecCatalog: one call of AnalyzeByEngine on a script of statements that  *)
(* between them meet every check of the three analyzers                     *)
(***************************************************************************)

MaxCatalogParts == 2

CatalogParts ==
    << <<"DROP", " ", "TABLE", " ", "t", ";">>,
       <<"TRUNCATE", " ", "TABLE", " ", "t", ";">>,
       <<"ALTER", " ", "TABLE", " ", "t", " ", "DROP", " ", "COLUMN", " ", "x", ";">>,
       <<"UPDATE", " ", "t", " ", "SET", " ", "x", ";">>,
       <<"DELETE", " ", "FROM", " ", "t", " ", "WHERE", " ", "1", "=", "1", ";">>,
       <<"\n", "DELETE", " ", "FROM", " ", "t", "\n">>,
       <<"SELECT", " ", "*", " ", "FROM", " ", "t", " ", "WHERE", " ", "x", " ", "LIKE", " ", "'", "%", "a", "'", " ", "ORDER", " ", "BY", " ", "RAND", "(", ")", ";">>,
       <<"SELECT", " ", "x", " ", "INTO", " ", "OUTFILE", " ", "'", "f", "'", " ", "LIMIT", " ", "1", FullwidthSemicolon, "\n">>,
       <<"INSERT", " ", "INTO", " ", "t", " ", "VALUES", " ", "(", "1", ")", ";">>,
       <<"CREATE", " ", "TABLE", " ", "t", " ", "(", "x", ")", ";">>,
       <<"CREATE", " ", "INDEX", " ", "i", " ", "ON", " ", "t", " ", "(", "x", ")", ";">>,
       <<"CREATE", " ", "PROCEDURE", " ", "p", ";">>,
       <<"db", ".", "t", ".", "updateMany", "(", "{", "}", ",", " ", "{", "}", ")", ";">>,
       <<"db", ".", "t", ".", "deleteMany", "(", "{", "}", ")", ";">>,
       <<"db", ".", "t", ".", "find", "(", "{", "$where", "}", ")", "\n">>,
       <<"db", ".", "t", ".", "aggregate", "(", "[", "{", "$out", "}", "]", ")", ";">> >>

\* A script of n one-word statements.
RECURSIVE ManyStatements(_)
ManyStatements(n) == IF n = 0 THEN <<>> ELSE <<"x", ";">> \o ManyStatements(n - 1)

\* The scripts of the parts, and one with more statements than either
\* engine accepts without a warning.
CatalogScripts ==
    ScriptsOf(CatalogParts, MaxCatalogParts)
    \cup {ManyStatements(TooManyStatementsPostgres + 1)}

InitCatalog ==
    /\ content \in CatalogScripts
    /\ engine \in EngineSelectors
    /\ options = [DisabledRules |-> NilMap]
    /\ request = NoRequest
    /\ result = NoResult
    /\ pc = "start"
    /\ alwaysEnabledRules = AlwaysEnabledRuleCodes
    /\ forcedRules = <<>>
    /\ response = NoResponse
    /\ history = <<>>
    /\ segments = NoSegments
    /\ calls = NoCalls
    /\ clock = 0
    /\ reports = {}

NextCatalog == Analyze

SpecCatalog == InitCatalog /\ [][NextCatalog]_vars

(***************************************************************************)
(* SpecScan: the character scans of splitSQLStatements,                     *)
(* stripCommentsAndStrings and parseMongoOperations, one pass of the loop   *)
(* at a time                                                                *)
(***************************************************************************)

MaxScanLen == 4

\* The runes the scripts are written with: the quotes, the backslash, the
\* runes comments are opened and closed with, the line end and a pair of
\* brackets.
ScanRunes ==
    << <<"'">>, <<"\"">>, <<Backquote>>, <<"\\">>, <<"-">>, <<"#">>, <<"/">>, <<"*">>,
       <<"\n">>, <<"(">>, <<")">> >>

ScanScripts == ScriptsOf(ScanRunes, MaxScanLen)

\* The locals of each scan before its loop.
ScanStarts ==
    {[scanner |-> "splitSQLStatements", scan |-> SplitInit, before |-> SplitInit],
     [scanner |-> "stripCommentsAndStrings", scan |-> StripInit, before |-> StripInit],
     [scanner |-> "parseMongoOperations", scan |-> MongoInit, before |-> MongoInit]}

InitScan ==
    /\ content \in ScanScripts
    /\ segments \in ScanStarts
    /\ engine = EngineMySQL
    /\ options = [DisabledRules |-> NilMap]
    /\ request = NoRequest
    /\ result = NoResult
    /\ pc = "start"
    /\ alwaysEnabledRules = AlwaysEnabledRuleCodes
    /\ forcedRules = <<>>
    /\ response = NoResponse
    /\ history = <<>>
    /\ calls = NoCalls
    /\ clock = 0
    /\ reports = {}

\* The scan moves from its locals to the ones after one pass.
ScanPass(scanner, after) ==
    /\ segments.scanner = scanner
    /\ segments.scan.i <= Len(content)
    /\ segments' = [scanner |-> scanner, scan |-> after, before |-> segments.scan]
    /\ pc' = "scanning"
    /\ UNCHANGED <<request, content, engine, options, result, alwaysEnabledRules,
                   forcedRules, response, history, callVars>>

\* One pass of the loops of splitSQLStatements.
SplitPass == ScanPass("splitSQLStatements", SplitStep(segments.scan, content))

\* One pass of the loop of stripCommentsAndStrings.
StripPass == ScanPass("stripCommentsAndStrings", StripRune(segments.scan, content))

\* One pass of the loop of parseMongoOperations.
MongoPass ==
    ScanPass("parseMongoOperations", MongoRune(segments.scan, NormalizeNewlines(content)))

NextScan == SplitPass \/ StripPass \/ MongoPass

SpecScan == InitScan /\ [][NextScan]_vars

(***************************************************************************)
(* SpecConcurrent: callers that run AnalyzeByEngine side by side, each call *)
(* in the steps of its analyzer                                             *)
(***************************************************************************)

MaxCallsEach == 2

MaxClock == 2

\* The arguments the callers pass.
ConcurrentArguments ==
    {[engine |-> <<"mysql">>,
      content |-> <<"UPDATE", " ", "t", " ", "SET", " ", "x", "\n",
                    "SELECT", " ", "*", " ", "FROM", " ", "t", FullwidthSemicolon>>,
      options |-> [DisabledRules |-> {}]],
     [engine |-> <<"mysql">>,
      content |-> <<"UPDATE", " ", "t", " ", "SET", " ", "x", "\n",
                    "SELECT", " ", "*", " ", "FROM", " ", "t", FullwidthSemicolon>>,
      options |-> [DisabledRules |-> {"select_star"}]],
     [engine |-> <<"mongo">>,
      content |-> <<"db", ".", "t", ".", "find", "(", "{", "$where", "}", ")", "\n",
                    "db", ".", "t", ".", "find", "(", ")">>,
      options |-> [DisabledRules |-> NilMap]],
     [engine |-> <<"pg">>, content |-> <<"\n">>, options |-> [DisabledRules |-> {}]]}

SharedSlot(c) == 1

\* The caller whose variables a step of caller c works on: the variables of
\* an analyzer (res, statements, issues) are locals of the call.
LocalsOf(c) == c

\* The segmenter of the engine.
SegmentFor(eng, runes) ==
    IF NormalizeEngine(eng) = EngineMongoDB THEN parseMongoOperations(runes)
    ELSE splitSQLStatements(runes)

\* The issues the checks of the engine's analyzer append.
FindingsFor(eng, runes, statements, opts) ==
    IF NormalizeEngine(eng) = EnginePostgreSQL THEN PostgresFindings(runes, statements)
    ELSE IF NormalizeEngine(eng) = EngineMongoDB THEN MongoFindings(statements)
    ELSE addIssues(<<>>, SQLFindings(runes, statements, reRoutineDefinitionMatch(runes)), opts)

\* The report the engine's analyzer builds from the issues it appended.
ReportFor(eng, runes, statements, issues, opts) ==
    IF NormalizeEngine(eng) = EnginePostgreSQL
    THEN FinishResult(postgresRulesVersion, Len(statements), issues, opts)
    ELSE IF NormalizeEngine(eng) = EngineMongoDB
    THEN FinishResult(mongoRulesVersion, Len(statements), issues, opts)
    ELSE SQLReport(SortSliceStable(issues), statements, reRoutineDefinitionMatch(runes))

\* The report a call returns, logged with its arguments.
Logged(call, report) ==
    [engine |-> call.engine, content |-> call.content, options |-> call.options,
     Summary |-> report.Summary, Issues |-> report.Issues]

InitConcurrent ==
    /\ content = <<>>
    /\ engine = <<>>
    /\ options = [DisabledRules |-> NilMap]
    /\ request = NoRequest
    /\ result = NoResult
    /\ pc = "start"
    /\ alwaysEnabledRules = AlwaysEnabledRuleCodes
    /\ forcedRules = <<>>
    /\ response = NoResponse
    /\ history = <<>>
    /\ segments = NoSegments
    /\ calls = NoCalls
    /\ clock = 0
    /\ reports = {}

analyzerVars ==
    <<request, content, engine, options, result, pc, alwaysEnabledRules, forcedRules,
      response, history, segments>>

\* Caller c calls AnalyzeByEngine.
Call(c) ==
    /\ calls[c].pc \in {"idle", "returned"}
    /\ calls[c].made < MaxCallsEach
    /\ \E a \in ConcurrentArguments :
           calls' = [calls EXCEPT ![c] =
                         [IdleCall EXCEPT !.pc = "called", !.made = calls[c].made + 1,
                                          !.engine = a.engine, !.content = a.content,
                                          !.options = a.options]]
    /\ UNCHANGED <<analyzerVars, clock, reports>>

\* The analyzer of c's call reads the time, and returns the empty-script
\* report or segments the script.
Segment(c) ==
    /\ calls[c].pc = "called"
    /\ LET call == calls[c]
       IN IF TrimSpace(call.content) = <<>>
          THEN LET Return(report) ==
                       /\ calls' = [calls EXCEPT ![LocalsOf(c)].report = report,
                                                 ![LocalsOf(c)].checkedAt = clock,
                                                 ![c].pc = "returned"]
                       /\ reports' = reports \cup {Logged(call, report)}
               IN Return(AnalyzeByEngine(call.engine, call.content, call.options))
          ELSE /\ calls' = [calls EXCEPT ![LocalsOf(c)].statements =
                                             SegmentFor(call.engine, call.content),
                                         ![LocalsOf(c)].checkedAt = clock,
                                         ![c].pc = "segmented"]
               /\ UNCHANGED reports
    /\ UNCHANGED <<analyzerVars, clock>>

\* The analyzer of c's call runs its checks and appends their issues.
Check(c) ==
    /\ calls[c].pc = "segmented"
    /\ calls' = [calls EXCEPT ![LocalsOf(c)].issues =
                                  FindingsFor(calls[c].engine, calls[c].content,
                                              calls[LocalsOf(c)].statements,
                                              calls[c].options),
                              ![c].pc = "checked"]
    /\ UNCHANGED <<analyzerVars, clock, reports>>

\* The analyzer of c's call sorts, filters, counts and returns.
Finish(c) ==
    /\ calls[c].pc = "checked"
    /\ LET Return(report) ==
               /\ calls' = [calls EXCEPT ![LocalsOf(c)].report = report,
                                         ![c].pc = "returned"]
               /\ reports' = reports \cup {Logged(calls[c], report)}
       IN Return(ReportFor(calls[c].engine, calls[c].content,
                           calls[LocalsOf(c)].statements, calls[LocalsOf(c)].issues,
                           calls[c].options))
    /\ UNCHANGED <<analyzerVars, clock>>

\* Time passes.
Tick ==
    /\ clock < MaxClock
    /\ clock' = clock + 1
    /\ UNCHANGED <<analyzerVars, calls, reports>>

NextConcurrent ==
    \/ \E c \in Callers : Call(c)
    \/ \E c \in Callers : Segment(c)
    \/ \E c \in Callers : Check(c)
    \/ \E c \in Callers : Finish(c)
    \/ Tick

SpecConcurrent == InitConcurrent /\ [][NextConcurrent]_vars

(***************************************************************************)
(* Properties of one AnalyzeByEngine call (Spec)                            *)
(***************************************************************************)

\* The disabled set of a call as a set: a nil map disables nothing.
Disabled(opts) == IF opts.DisabledRules = NilMap THEN {} ELSE opts.DisabledRules

Returned == pc = "done"

IssueIndices(issues) == 1..Len(issues)

\* The issues of a report with the given rule codes.
IssuesOfRules(issues, rules) == {issues[k] : k \in {j \in IssueIndices(issues) : issues[j].Rule \in rules}}

\* C1: for every engine selector and every empty or whitespace-only script,
\* a call with an empty disabled set returns statementCount 0 and exactly one
\* issue: empty_input, severity error, statementIndex 0.
C1_EmptyScriptReport ==
    (Returned /\ TrimSpace(content) = <<>> /\ Disabled(options) = {}) =>
        /\ result.Summary.StatementCount = 0
        /\ Len(result.Issues) = 1
        /\ result.Issues[1].Rule = "empty_input"
        /\ result.Issues[1].Level = LevelError
        /\ result.Issues[1].StatementIndex = 0

C1_Witness ==
    /\ Returned
    /\ content = <<"\n", "\n">>
    /\ engine = <<"oracle">>
    /\ options.DisabledRules = {}
    /\ Len(result.Issues) = 1

\* C2: in every report, for every engine, script and disabled set, each
\* summary count equals the number of returned issues of that severity, so
\* the three counts add up to the number of issues.
C2_SummaryCountsIssues ==
    Returned =>
        /\ result.Summary.ErrorCount = CountLevel(result.Issues, LevelError)
        /\ result.Summary.WarningCount = CountLevel(result.Issues, LevelWarning)
        /\ result.Summary.InfoCount = CountLevel(result.Issues, LevelInfo)
        /\ result.Summary.ErrorCount + result.Summary.WarningCount
             + result.Summary.InfoCount = Len(result.Issues)

\* C3: in every report every issue's statementIndex is 0 or lies in
\* 1..summary.statementCount.
C3_IndexWithinStatements ==
    Returned =>
        \A k \in IssueIndices(result.Issues) :
            \/ result.Issues[k].StatementIndex = 0
            \/ result.Issues[k].StatementIndex \in 1..result.Summary.StatementCount

\* C6: when the disabled set D holds no always-enabled code, the report has
\* no issue of a code in D, its issues are those of the same call with an
\* empty disabled set minus the ones of a code in D, in the same order, and
\* statementCount is the same.
C6_DisabledIssuesDropped ==
    (Returned /\ Disabled(options) \cap AlwaysEnabledRuleCodes = {}) =>
        LET base == AnalyzeByEngine(engine, content, [DisabledRules |-> {}])
            Kept(k) == base.Issues[k].Rule \notin Disabled(options)
        IN /\ \A k \in IssueIndices(result.Issues) :
                  result.Issues[k].Rule \notin Disabled(options)
           /\ result.Issues = SelectSeqIdx(base.Issues, Kept, 1)
           /\ result.Summary.StatementCount = base.Summary.StatementCount

C6_Witness ==
    /\ Returned
    /\ Disabled(options) # {}
    /\ Disabled(options) \cap AlwaysEnabledRuleCodes = {}
    /\ Len(result.Issues) >= 2
    /\ Len(result.Issues)
         < Len(AnalyzeByEngine(engine, content, [DisabledRules |-> {}]).Issues)

TerminatorRuleFullwidth == {"fullwidth_statement_terminator"}

TerminatorRulesMissing == {"missing_statement_terminator", "mongo_missing_statement_terminator"}

Listed(issue) == {issue.Message[k] : k \in 1..Len(issue.Message)}

\* C7: in every report no statement index listed by the full-width
\* terminator finding is listed by the missing-terminator finding.
C7_TerminatorFindingsDisjoint ==
    Returned =>
        \A f \in IssuesOfRules(result.Issues, TerminatorRuleFullwidth) :
            \A m \in IssuesOfRules(result.Issues, TerminatorRulesMissing) :
                Listed(f) \cap Listed(m) = {}

C7_Witness ==
    /\ Returned
    /\ \E f \in IssuesOfRules(result.Issues, TerminatorRuleFullwidth) :
           \E m \in IssuesOfRules(result.Issues, TerminatorRulesMissing) :
               Listed(f) # {} /\ Listed(m) # {}

\* The issues of a call in the order its checks appended them, before the
\* sort (the disabled ones left out).
IssuesInCheckOrder(eng, runes, opts) ==
    LET Kept(found) ==
            LET Enabled(k) == ruleEnabled(opts, found[k].Rule)
            IN SelectSeqIdx(found, Enabled, 1)
        e == NormalizeEngine(eng)
    IN IF TrimSpace(runes) = <<>> THEN Kept(<<EmptyInputIssue>>)
       ELSE IF e = EnginePostgreSQL
       THEN Kept(PostgresFindings(runes, splitSQLStatements(runes)))
       ELSE IF e = EngineMongoDB THEN Kept(MongoFindings(parseMongoOperations(runes)))
       ELSE Kept(SQLFindings(runes, splitSQLStatements(runes),
                             reRoutineDefinitionMatch(runes)))

\* The place of an issue in a sequence of issues (0 when it is not there).
PlaceOf(issue, issues) ==
    IF \E k \in IssueIndices(issues) : issues[k] = issue
    THEN CHOOSE k \in IssueIndices(issues) : issues[k] = issue
    ELSE 0

SeverityRank(level) == CASE level = LevelError -> 3 [] level = LevelWarning -> 2 [] OTHER -> 1

\* C9: the issues are in ascending statementIndex order, within one index
\* in descending severity order, and issues equal in both keep the order in
\* which their checks ran.
C9_IssuesOrdered ==
    Returned =>
        LET order == IssuesInCheckOrder(engine, content, options)
        IN \A i, j \in IssueIndices(result.Issues) :
               i < j =>
                   LET a == result.Issues[i]
                       b == result.Issues[j]
                   IN /\ a.StatementIndex <= b.StatementIndex
                      /\ a.StatementIndex = b.StatementIndex =>
                             SeverityRank(a.Level) >= SeverityRank(b.Level)
                      /\ (a.StatementIndex = b.StatementIndex /\ a.Level = b.Level) =>
                             /\ PlaceOf(a, order) > 0
                             /\ PlaceOf(a, order) < PlaceOf(b, order)

\* A report the sort had to reorder, holding two issues equal in both keys.
C9_Witness ==
    /\ Returned
    /\ result.Issues # IssuesInCheckOrder(engine, content, options)
    /\ \E i, j \in IssueIndices(result.Issues) :
           /\ i < j
           /\ result.Issues[i].StatementIndex = result.Issues[j].StatementIndex
           /\ result.Issues[i].Level = result.Issues[j].Level

(***************************************************************************)
(* Properties of the check handler (SpecCheck)                              *)
(***************************************************************************)

Responded == pc = "responded" /\ response.Status = 200

\* The issues of an always-enabled rule, in the order of the report.
AlwaysEnabledIssues(issues) ==
    LET Always(k) == issues[k].Rule \in AlwaysEnabledRuleCodes
    IN SelectSeqIdx(issues, Always, 1)

\* C4 as stated: for every disabled set D passed to AnalyzeByEngine, the
\* always-enabled issues of the report are those of the same call with the
\* always-enabled codes taken out of D.
C4_AnalyzeKeepsAlwaysEnabledIssues ==
    Returned =>
        AlwaysEnabledIssues(result.Issues)
            = AlwaysEnabledIssues(
                  AnalyzeByEngine(engine, content,
                                  [DisabledRules |->
                                       Disabled(options) \ AlwaysEnabledRuleCodes]).Issues)

\* C4 amended: for every check request handleCheck serves, whatever codes
\* its disabledRules list names, the always-enabled issues of the response
\* are those AnalyzeByEngine reports for the same engine and script with an
\* empty disabled set.
C4_CheckKeepsAlwaysEnabledIssues ==
    Responded =>
        AlwaysEnabledIssues(response.Result.Issues)
            = AlwaysEnabledIssues(
                  AnalyzeByEngine(engine, content, [DisabledRules |-> {}]).Issues)

\* A served request that asked to disable an always-enabled rule the
\* response reports all the same.
C4_Witness ==
    /\ Responded
    /\ \E k \in IssueIndices(response.Result.Issues) :
           response.Result.Issues[k].Rule
               \in RequestedCodes(request.DisabledRules) \cap AlwaysEnabledRuleCodes

Range(seq) == {seq[k] : k \in 1..Len(seq)}

\* The place of a rule code in the order of sort.Strings.
CodeRank(code) == CHOOSE k \in 1..Len(RuleCodeOrder) : RuleCodeOrder[k] = code

InAscendingOrder(codes) ==
    \A i, j \in 1..Len(codes) : i < j => CodeRank(codes[i]) < CodeRank(codes[j])

\* What a step that runs enforceAlwaysEnabledRules (a direct call, or a
\* served check request) must do to the disabled set it was given.
EnforceStep ==
    LET direct == pc = "start" /\ pc' = "enforced"
        served == pc = "start" /\ pc' = "responded" /\ response'.Status = 200
        before == IF direct THEN options.DisabledRules
                  ELSE ReadCheckRequest(request).DisabledRules
        after == options'.DisabledRules
    IN (direct \/ served) =>
           /\ after = (IF before = NilMap THEN NilMap ELSE before \ AlwaysEnabledRuleCodes)
           /\ Range(forcedRules')
                  = (IF before = NilMap THEN {} ELSE before \cap AlwaysEnabledRuleCodes)
           /\ InAscendingOrder(forcedRules')
           /\ served =>
                  /\ Range(response'.DisabledRules) \cap AlwaysEnabledRuleCodes = {}
                  /\ Range(response'.DisabledRules) = after
                  /\ InAscendingOrder(response'.DisabledRules)
           /\ alwaysEnabledRules' = alwaysEnabledRules
           /\ alwaysEnabledRules' = AlwaysEnabledRuleCodes

\* C5: enforceAlwaysEnabledRules removes from the disabled set exactly the
\* always-enabled codes it held, leaves the others, and returns the removed
\* codes sorted (none for a nil or empty set); so the disabledRules list of
\* a check response holds no always-enabled code, and alwaysEnabledRules is
\* never modified.
C5_EnforceRemovesAlwaysEnabled == [][EnforceStep]_vars

C5_Witness ==
    /\ Responded
    /\ Len(forcedRules) >= 2
    /\ response.DisabledRules # <<>>
    /\ RequestedCodes(request.DisabledRules) \cap AlwaysEnabledRuleCodes # {}

(***************************************************************************)
(* Properties of splitSQLStatements (SpecSplit)                             *)
(***************************************************************************)

\* Whether the rune at index i is preceded by an odd run of backslashes.
RECURSIVE OddBackslashesBefore(_, _)
OddBackslashesBefore(runes, i) ==
    IF i > 1 /\ runes[i - 1] = "\\" THEN ~OddBackslashesBefore(runes, i - 1) ELSE FALSE

\* The lexical reading of a script, rune by rune: at[k] is where rune k
\* lies ("code" outside strings and comments; the runes that open or close a
\* string or comment lie in it), and end is the region open at the end of
\* the script.  slashComments tells whether // opens a line comment, and
\* backquoteEscapes whether a backslash escapes a back quote.
RECURSIVE Lexed(_, _, _, _, _, _)
Lexed(runes, i, region, at, slashComments, backquoteEscapes) ==
    IF i > Len(runes) THEN [at |-> at, end |-> region]
    ELSE
        LET ch == runes[i]
            pair == IF i < Len(runes) THEN <<ch, runes[i + 1]>> ELSE <<ch>>
            escaped == OddBackslashesBefore(runes, i)
            Go(n, here, after) ==
                Lexed(runes, i + n, after, at \o [k \in 1..n |-> here], slashComments,
                      backquoteEscapes)
            QuoteRegion == CASE ch = "'" -> "single" [] ch = "\"" -> "double"
                             [] OTHER -> "back"
            Escapable == ch # Backquote \/ backquoteEscapes
        IN CASE region = "line" -> Go(1, "line", IF ch = "\n" THEN "code" ELSE "line")
             [] region = "block" ->
                    IF pair = <<"*", "/">> THEN Go(2, "block", "code")
                    ELSE Go(1, "block", "block")
             [] region \in {"single", "double", "back"} ->
                    IF ch \in {"'", "\"", Backquote} /\ QuoteRegion = region
                       /\ ~(Escapable /\ escaped)
                    THEN Go(1, region, "code")
                    ELSE Go(1, region, region)
             [] OTHER ->
                    IF pair = <<"-", "-">> THEN Go(2, "line", "line")
                    ELSE IF ch = "#" THEN Go(1, "line", "line")
                    ELSE IF pair = <<"/", "*">> THEN Go(2, "block", "block")
                    ELSE IF slashComments /\ pair = <<"/", "/">> THEN Go(2, "line", "line")
                    ELSE IF ch \in {"'", "\"", Backquote} /\ ~(Escapable /\ escaped)
                    THEN Go(1, QuoteRegion, QuoteRegion)
                    ELSE Go(1, "code", "code")

Reading(runes, slashComments, backquoteEscapes) ==
    Lexed(runes, 1, "code", <<>>, slashComments, backquoteEscapes)

\* The scanner ended statements only at runes the reading puts outside
\* strings and comments, and left the script in the region the reading
\* leaves it in.
SplitAgreesWith(reading) ==
    /\ \A k \in 1..Len(segments.scan.cuts) : reading.at[segments.scan.cuts[k].at] = "code"
    /\ segments.scan.inSingleQuote <=> reading.end = "single"
    /\ segments.scan.inDoubleQuote <=> reading.end = "double"
    /\ segments.scan.inBacktick <=> reading.end = "back"
    /\ segments.scan.inBlockComment <=> reading.end = "block"

\* C10 as stated: splitSQLStatements never ends a statement at a terminator
\* inside a single-, double- or back-quoted string, a line comment (--, #,
\* //) or a block comment, and a quote after an odd run of backslashes does
\* not close its string (after an even run it does).
C10_SplitRespectsQuotesAndComments ==
    pc = "split" => SplitAgreesWith(Reading(content, TRUE, TRUE))

\* C10 amended: the same, with -- and # as the only line comments (// opens
\* none) and the backslash rule for single and double quotes only: a back
\* quote closes a back-quoted string whatever precedes it, and a single or
\* double quote after an odd run of backslashes neither closes nor opens a
\* string.
C10_SplitRespectsSQLQuotesAndComments ==
    pc = "split" => SplitAgreesWith(Reading(content, FALSE, FALSE))

\* A script with a terminator inside a string kept open by an escaped
\* quote: the scanner made no cut.
C10_Witness ==
    /\ pc = "split"
    /\ content = <<"'", "\\", "'", ";">>
    /\ segments.scan.cuts = <<>>
    /\ segments.scan.inSingleQuote

(***************************************************************************)
(* Properties of calls that run side by side (SpecConcurrent)               *)
(***************************************************************************)

SameArguments(a, b) ==
    a.engine = b.engine /\ a.content = b.content /\ a.options = b.options

\* C8: apart from its timestamp, the report of AnalyzeByEngine is a function
\* of its arguments: calls with the same engine, script and disabled set
\* return the same summary and issues, whatever calls ran before them or
\* are interleaved with them.
C8_ReportDependsOnArgumentsOnly ==
    /\ \A a, b \in reports :
           SameArguments(a, b) => a.Summary = b.Summary /\ a.Issues = b.Issues
    /\ \A c \in Callers :
           calls[c].pc = "returned" =>
               /\ Logged(calls[c], calls[c].report) \in reports
               /\ calls[c].report.Issues
                      = AnalyzeByEngine(calls[c].engine, calls[c].content,
                                        calls[c].options).Issues

\* Two calls with the same arguments that overlapped, read different times
\* and returned the same issues, the other caller being in its second call.
C8_Witness ==
    /\ calls[1].pc = "returned"
    /\ calls[2].pc = "returned"
    /\ SameArguments(calls[1], calls[2])
    /\ calls[1].checkedAt # calls[2].checkedAt
    /\ calls[1].report.Issues = calls[2].report.Issues
    /\ Len(calls[1].report.Issues) >= 2
    /\ calls[2].made = 2
    /\ Cardinality(reports) >= 2

(***************************************************************************)
(* Properties of DELIMITER directives (SpecDelimiter)                       *)
(***************************************************************************)

\* Whether a line has the form DELIMITER <token>, in any letter case.
IsDirectiveLine(line) ==
    LET words == Fields(line)
    IN Len(words) >= 2 /\ ToUpper(words[1]) = <<"DELIMITER">>

\* The script read line by line: for every rune, whether its line is a
\* directive (read outside strings and block comments), the terminator that
\* is active on its line, and where the rune lies.
RECURSIVE DirectiveReading(_, _, _, _, _)
DirectiveReading(runes, i, region, active, info) ==
    IF i > Len(runes) THEN info
    ELSE
        LET Line(line) ==
                IF region = "code" /\ IsDirectiveLine(line)
                THEN DirectiveReading(runes, i + Len(line), "code", Fields(line)[2],
                         info \o [k \in 1..Len(line) |->
                                     [directive |-> TRUE, active |-> active, at |-> "code"]])
                ELSE LET Read(lex) ==
                             DirectiveReading(runes, i + Len(line),
                                 IF lex.end = "line" THEN "code" ELSE lex.end, active,
                                 info \o [k \in 1..Len(line) |->
                                             [directive |-> FALSE, active |-> active,
                                              at |-> lex.at[k]]])
                     IN Read(Lexed(line, 1, region, <<>>, FALSE, FALSE))
        IN Line(SubSeq(runes, i, LineEnd(runes, i)))

\* The places where the reading ends a statement: outside strings, comments
\* and directive lines, at the active terminator, and at a full-width
\* semicolon only while the active terminator is ;.
RECURSIVE TerminatorPlaces(_, _, _)
TerminatorPlaces(runes, info, k) ==
    IF k > Len(runes) THEN <<>>
    ELSE IF info[k].directive \/ info[k].at # "code"
    THEN TerminatorPlaces(runes, info, k + 1)
    ELSE IF matchRunesAt(runes, k, info[k].active)
    THEN <<k>> \o TerminatorPlaces(runes, info, k + Len(info[k].active))
    ELSE IF info[k].active = <<";">> /\ runes[k] = FullwidthSemicolon
    THEN <<k>> \o TerminatorPlaces(runes, info, k + 1)
    ELSE TerminatorPlaces(runes, info, k + 1)

\* Whether rune k is part of the terminator read at one of the places.
InTerminator(runes, info, places, k) ==
    \E j \in 1..Len(places) :
        /\ places[j] <= k
        /\ k < places[j] + (IF matchRunesAt(runes, places[j], info[places[j]].active)
                            THEN Len(info[places[j]].active) ELSE 1)

\* The runes of a script that are statement text: outside comments and
\* directive lines and not part of a terminator; white space left out.
StatementText(runes, info, places) ==
    SelectSeqIdx(runes,
        LAMBDA k : /\ ~info[k].directive
                   /\ info[k].at \notin {"line", "block"}
                   /\ ~InTerminator(runes, info, places, k)
                   /\ ~IsSpace(runes[k]), 1)

RECURSIVE Flatten(_)
Flatten(items) == IF items = <<>> THEN <<>> ELSE Head(items) \o Flatten(Tail(items))

WithoutSpace(runes) == SelectSeqIdx(runes, LAMBDA k : ~IsSpace(runes[k]), 1)

\* A routine body with two inner ; statements between DELIMITER $$ and
\* delimiter ;, followed by one more statement.
RoutineScript ==
    <<"DELIMITER", " ", "$", "$", "\n", "a", ";", "a", ";", "b", "$", "$", "\n",
      "delimiter", " ", ";", "\n", "a", ";">>

SplitFollowsDirectives(info) ==
    LET Against(places) ==
            /\ [k \in 1..Len(segments.scan.cuts) |-> segments.scan.cuts[k].at] = places
            /\ WithoutSpace(Flatten(segments.statements))
                   = StatementText(content, info, places)
    IN Against(TerminatorPlaces(content, info, 1))

\* C11: a line DELIMITER <token> (any letter case, outside strings and block
\* comments) makes <token> the terminator of the following lines until the
\* next such line: statements end exactly at the active terminator (and at
\* the full-width semicolon only while the terminator is ;), a directive line
\* adds no text to any statement, and a routine body with inner ; statements
\* followed by one more statement gives exactly 2 statements.
C11_DelimiterDirective ==
    pc = "split" =>
        /\ SplitFollowsDirectives(DirectiveReading(content, 1, "code", <<";">>, <<>>))
        /\ content = RoutineScript => Len(segments.statements) = 2

\* The routine script was split into the routine, with its inner ; kept, and
\* the statement after it.
C11_Witness ==
    /\ pc = "split"
    /\ content = RoutineScript
    /\ segments.statements = << <<"a", ";", "a", ";", "b">>, <<"a">> >>
    /\ segments.scan.delimiter = <<";">>

(***************************************************************************)
(* Properties of the segmenters (SpecSegment)                               *)
(***************************************************************************)

\* The Text fields of a list of fragments that carry flags.
TextsOf(items) == [k \in 1..Len(items) |-> items[k].Text]

\* Whether the runes of part occur in whole, in their order.
RECURSIVE OccursInOrder(_, _)
OccursInOrder(part, whole) ==
    IF part = <<>> THEN TRUE
    ELSE IF whole = <<>> THEN FALSE
    ELSE IF Head(part) = Head(whole) THEN OccursInOrder(Tail(part), Tail(whole))
    ELSE OccursInOrder(part, Tail(whole))

\* The text of a script after its last ; or full-width semicolon.
RECURSIVE AfterLastTerminator(_)
AfterLastTerminator(runes) ==
    IF runes = <<>> THEN <<>>
    ELSE IF runes[Len(runes)] \in {";", FullwidthSemicolon} THEN <<>>
    ELSE Append(AfterLastTerminator(SubSeq(runes, 1, Len(runes) - 1)), runes[Len(runes)])

\* No fragment is empty or white space only, the fragments follow the order
\* of their text in the script, and text after the last terminator is in
\* the final fragment.
WellFormedFragments(texts, runes) ==
    LET Trailing(rest) ==
            rest # <<>> =>
                /\ Len(texts) >= 1
                /\ \/ HasSuffix(WithoutSpace(texts[Len(texts)]), rest)
                   \/ HasSuffix(rest, WithoutSpace(texts[Len(texts)]))
    IN /\ \A k \in 1..Len(texts) : TrimSpace(texts[k]) # <<>>
       /\ OccursInOrder(WithoutSpace(Flatten(texts)), WithoutSpace(runes))
       /\ Trailing(WithoutSpace(AfterLastTerminator(runes)))

\* The final fragment of a script with text after its last terminator is
\* not flagged as terminated.
TrailingUnterminated(items, runes) ==
    WithoutSpace(AfterLastTerminator(runes)) # <<>> =>
        Len(items) >= 1 /\ ~items[Len(items)].Terminated

SQLFragmentsWellFormed ==
    pc = "segmented" =>
        /\ WellFormedFragments(segments.statements, content)
        /\ WellFormedFragments(TextsOf(segments.detailed), content)
        /\ TrailingUnterminated(segments.detailed, content)

MongoOperationsWellFormed ==
    pc = "segmented" =>
        /\ WellFormedFragments(TextsOf(segments.operations), content)
        /\ TrailingUnterminated(segments.operations, content)

MongoTextsWellFormed ==
    pc = "segmented" => WellFormedFragments(segments.operationTexts, content)

\* C12: no fragment produced by splitSQLStatements, parseMongoOperations,
\* splitMongoOperations or splitSQLByLineStartHeuristicDetailed is empty or
\* white space only, the fragments are in the order of their text in the
\* script, and text after the last terminator is emitted as a final
\* fragment, not flagged as terminated.
C12_FragmentsWellFormed ==
    /\ SQLFragmentsWellFormed
    /\ MongoOperationsWellFormed
    /\ MongoTextsWellFormed

(***************************************************************************)
(* Properties of the terminator findings (Spec)                             *)
(***************************************************************************)

\* The 1-based positions, in the statement sequence of splitSQLStatements,
\* of the statements the scanner ended at a full-width semicolon
\* (fullwidth) or at the delimiter: the cuts of the scan that added a
\* statement.
SQLStatementsEndedBy(runes, fullwidth) ==
    LET Among(cuts) ==
            LET ItemsUpTo(q) == Len(SplitFinal(SubSeq(runes, 1, q)).items)
            IN {ItemsUpTo(cuts[k].at) :
                   k \in {j \in 1..Len(cuts) :
                              /\ cuts[j].fullwidth = fullwidth
                              /\ ItemsUpTo(cuts[j].at) = ItemsUpTo(cuts[j].at - 1) + 1}}
    IN Among(SplitFinal(runes).cuts)

\* The same for the operations of parseMongoOperations.
MongoOperationsEndedBy(runes, fullwidth) ==
    LET Among(ops) ==
            {k \in 1..Len(ops) :
                ops[k].Terminated /\ ops[k].FullwidthTerminator = fullwidth}
    IN Among(parseMongoOperations(runes))

StatementsEndedBy(eng, runes, fullwidth) ==
    IF NormalizeEngine(eng) = EngineMongoDB THEN MongoOperationsEndedBy(runes, fullwidth)
    ELSE SQLStatementsEndedBy(runes, fullwidth)

FullwidthFindingMatches(issues, endedByFullwidth, endedBySemicolon) ==
    /\ endedByFullwidth # {} =>
           \E f \in IssuesOfRules(issues, TerminatorRuleFullwidth) :
               f.Level = LevelError /\ endedByFullwidth \subseteq Listed(f)
    /\ \A f \in IssuesOfRules(issues, TerminatorRuleFullwidth) :
           Listed(f) \cap endedBySemicolon = {}

\* C13: for every engine, when the segmenter ends a statement at a
\* full-width semicolon the report has a fullwidth_statement_terminator
\* error that lists the statement at its position in the segmented sequence,
\* and the finding lists no statement that an ordinary ; ended.
C13_FullwidthTerminatorReported ==
    (Returned /\ "fullwidth_statement_terminator" \notin Disabled(options)) =>
        FullwidthFindingMatches(result.Issues,
                                StatementsEndedBy(engine, content, TRUE),
                                StatementsEndedBy(engine, content, FALSE))

(***************************************************************************)
(* Properties of the missing-terminator exemption (SpecExempt)              *)
(***************************************************************************)

\* Whether some line of the script is a DELIMITER directive, read outside
\* strings and block comments.
ContainsDirective(runes) ==
    LET Among(info) == \E k \in 1..Len(info) : info[k].directive
    IN Among(DirectiveReading(runes, 1, "code", <<";">>, <<>>))

\* Whether the script has the word CREATE followed by the word PROCEDURE,
\* FUNCTION, TRIGGER or EVENT.
ContainsRoutineDefinition(runes) ==
    \E i \in 1..Len(runes) :
        /\ UpperRune(runes[i]) = "CREATE"
        /\ BoundaryBefore(runes, i)
        /\ SkipSpace(runes, i + 1) > i + 1
        /\ SkipSpace(runes, i + 1) <= Len(runes)
        /\ UpperRune(runes[SkipSpace(runes, i + 1)]) \in RoutineWords
        /\ BoundaryAfter(runes, SkipSpace(runes, i + 1))

MissingTerminatorIssues(issues) == IssuesOfRules(issues, {"missing_statement_terminator"})

\* C14: for MySQL and PostgreSQL a script that contains a DELIMITER
\* directive or a routine definition never yields a
\* missing_statement_terminator issue, and a script that contains neither
\* is not exempted: when it has text and no terminator at all, the issue is
\* reported.
C14_ExemptExactlyDirectiveOrRoutine ==
    Returned =>
        IF ContainsDirective(content) \/ ContainsRoutineDefinition(content)
        THEN MissingTerminatorIssues(result.Issues) = {}
        ELSE (/\ TrimSpace(content) # <<>>
              /\ \A k \in 1..Len(content) : content[k] \notin {";", FullwidthSemicolon})
                 => MissingTerminatorIssues(result.Issues) # {}

(***************************************************************************)
(* Properties of the missing-terminator finding (SpecTerminator)            *)
(***************************************************************************)

IsSQLEngine(eng) == NormalizeEngine(eng) \in {EngineMySQL, EnginePostgreSQL}

\* A script that the trailing-statement case applies to: no directive, no
\* routine definition, no statement classified as merged, and text left
\* when comments and string contents are stripped.
TrailingCaseApplies(runes) ==
    /\ ~ContainsDirective(runes)
    /\ ~ContainsRoutineDefinition(runes)
    /\ ~hasLikelyMergedStatements(splitSQLStatements(runes))
    /\ TrimSpace(stripCommentsAndStrings(runes)) # <<>>

\* The last rune of the script, comments, string contents and trailing
\* white space stripped, is ; or the full-width semicolon.
EndsWithTerminator(runes) ==
    LET Ends(stripped) ==
            stripped # <<>> /\ stripped[Len(stripped)] \in {";", FullwidthSemicolon}
    IN Ends(TrimSpace(stripCommentsAndStrings(runes)))

\* The report has one missing_statement_terminator issue, an error that
\* lists the last of the statements only, with the statement as its snippet.
ReportsLastStatementOnly(issues, statements, statementCount) ==
    /\ statementCount = Len(statements)
    /\ Len(statements) >= 1
    /\ Cardinality(MissingTerminatorIssues(issues)) = 1
    /\ \A m \in MissingTerminatorIssues(issues) :
           /\ m.Level = LevelError
           /\ m.StatementIndex = statementCount
           /\ Listed(m) = {statementCount}
           /\ m.Statement = statements[Len(statements)]

\* C15: for MySQL and PostgreSQL and a script with no directive, no routine
\* definition and no merged statement: when the stripped script does not
\* end with ; or the full-width semicolon the report has a
\* missing_statement_terminator error that lists only the final statement
\* (index = statementCount, snippet = its text); when it does, there is no
\* missing_statement_terminator issue.
C15_TrailingStatementReported ==
    (Returned /\ IsSQLEngine(engine) /\ TrailingCaseApplies(content)) =>
        IF EndsWithTerminator(content)
        THEN MissingTerminatorIssues(result.Issues) = {}
        ELSE ReportsLastStatementOnly(result.Issues, splitSQLStatements(content),
                                      result.Summary.StatementCount)

\* Whether the snippet of an issue holds a ;.  The scripts of SpecTerminator
\* have no strings, comments or brackets, so every ; in them ends a
\* statement.
SnippetHoldsTerminatedText(issue) ==
    \E k \in 1..Len(issue.Statement) : issue.Statement[k] = ";"

\* C16: for every engine the snippet of a missing-terminator issue holds
\* only text of statements that lack a terminator, never the text of a
\* neighbouring statement that ; already ended (on the previous line, the
\* next line or earlier on the same line).
C16_SnippetOnlyUnterminated ==
    Returned =>
        \A m \in IssuesOfRules(result.Issues, TerminatorRulesMissing) :
            ~SnippetHoldsTerminatedText(m)

(***************************************************************************)
(* Properties of the merged-statement classification (SpecSoftStart)        *)
(***************************************************************************)

\* No line of a statement begins with a keyword other than WITH and
\* SELECT.
OnlySoftStarts(statement) == CountHardStatementStarts(statement) = 0

\* Every statement of the script was ended by a ;.
EachEndedBySemicolon(runes, statements) ==
    SQLStatementsEndedBy(runes, FALSE) = 1..Len(statements)

SoftStartsNeverMerged(statements, Text(_)) ==
    (\A k \in 1..Len(statements) : OnlySoftStarts(Text(statements[k]))) =>
        /\ ~hasLikelyMergedStatements(statements)
        /\ EachEndedBySemicolon(content, statements)
               => MissingTerminatorIssues(result.Issues) = {}

SingleStatement(statement) ==
    CountHardStatementStarts(TrimSpace(stripCommentsAndStrings(statement))) <= 1

TerminatedStatementsNotFlagged(statements) ==
    /\ \A k \in 1..Len(statements) : SingleStatement(statements[k])
    /\ EachEndedBySemicolon(content, statements)
    => MissingTerminatorIssues(result.Issues) = {}

\* C18: for MySQL and PostgreSQL a script in which every statement is ended
\* by ; yields no missing_statement_terminator issue, also when a statement
\* spans several lines, is prefixed by a common table expression or is a
\* write statement with a SELECT on a following line.
C18_TerminatedStatementsNotFlagged ==
    Returned => TerminatedStatementsNotFlagged(splitSQLStatements(content))

(***************************************************************************)
(* Properties of the engine selection (SpecEngine)                          *)
(***************************************************************************)

\* The spellings of a name: any letter case, whitespace on both sides.
PostgresSpellings ==
    {"pg", "PG", "postgres", "Postgres", "postgresql", "POSTGRESQL"}

MongoSpellings == {"mongo", "Mongo", "mongodb", "MongoDB"}

IsSpaceRun(s) == \A i \in 1..Len(s) : IsSpace(s[i])

Spells(selector, spellings) ==
    \E i \in 1..Len(selector) :
        /\ selector[i] \in spellings
        /\ IsSpaceRun(SubSeq(selector, 1, i - 1))
        /\ IsSpaceRun(SubSeq(selector, i + 1, Len(selector)))

ExpectedEngine(selector) ==
    IF Spells(selector, PostgresSpellings) THEN EnginePostgreSQL
    ELSE IF Spells(selector, MongoSpellings) THEN EngineMongoDB
    ELSE EngineMySQL

\* C19: NormalizeEngine maps every selector, whatever its letter case and
\* the whitespace around it, to postgresql (pg, postgres, postgresql), to
\* mongodb (mongo, mongodb) or else to mysql; it is idempotent; the
\* rulesVersion of the report of AnalyzeByEngine is the version
\* RulesForEngine returns for the same selector; and the versions of the
\* three engines differ from each other.
C19_EngineSelection ==
    /\ NormalizeEngine(engine) \in {EngineMySQL, EnginePostgreSQL, EngineMongoDB}
    /\ NormalizeEngine(engine) = ExpectedEngine(engine)
    /\ NormalizeEngine(NormalizeEngine(engine)) = NormalizeEngine(engine)
    /\ Returned => result.RulesVersion = RulesForEngine(engine)
    /\ RulesForEngine(EngineMySQL) # RulesForEngine(EnginePostgreSQL)
    /\ RulesForEngine(EngineMySQL) # RulesForEngine(EngineMongoDB)
    /\ RulesForEngine(EnginePostgreSQL) # RulesForEngine(EngineMongoDB)

\* A report for a script under a selector written in mixed case between
\* whitespace carries the version of the PostgreSQL catalog.
C19_Witness ==
    /\ Returned
    /\ engine = <<"\t", "Postgres", " ">>
    /\ content = CheckParts[1]
    /\ result.RulesVersion = postgresRulesVersion
    /\ postgresRulesVersion # rulesVersion

(***************************************************************************)
(* Properties of the UPDATE and DELETE rules (SpecWhere)                    *)
(***************************************************************************)

\* The statement has a WHERE clause: the keyword, in any letter case, with
\* whitespace of any kind on both sides.
HasWhereClause(statement) == ContainsWhereAnySpace(ToUpper(statement))

IsUpdateStatement(statement) == reUpdateNoWhere(ToUpper(statement))

IsDeleteStatement(statement) == reDeleteNoWhere(ToUpper(statement))

\* The report holds an issue of one of the rules for statement k.
ReportedAt(issues, rules, k) ==
    \E n \in 1..Len(issues) : issues[n].Rule \in rules /\ issues[n].StatementIndex = k

UpdateWithoutWhereRules == {"update_without_where", "pg_update_without_where"}

DeleteWithoutWhereRules == {"delete_without_where", "pg_delete_without_where"}

WhereRulesFollowClause(statements, issues) ==
    /\ \A k \in 1..Len(statements) :
          /\ IsUpdateStatement(statements[k]) =>
                (ReportedAt(issues, UpdateWithoutWhereRules, k)
                    <=> ~HasWhereClause(statements[k]))
          /\ IsDeleteStatement(statements[k]) =>
                (ReportedAt(issues, DeleteWithoutWhereRules, k)
                    <=> ~HasWhereClause(statements[k]))
    /\ (\E k, m \in 1..Len(statements) :
            /\ IsUpdateStatement(statements[k]) /\ ~HasWhereClause(statements[k])
            /\ IsDeleteStatement(statements[m]) /\ ~HasWhereClause(statements[m]))
        => result.Summary.ErrorCount >= 2

\* C20: for MySQL and PostgreSQL a statement of the form UPDATE ... SET ...
\* or DELETE FROM ... receives the update-without-where or
\* delete-without-where error exactly when it has no WHERE clause, whatever
\* whitespace (space, tab, line end) separates the keyword WHERE from the
\* text around it; a script with an unfiltered UPDATE and an unfiltered
\* DELETE has an error count of at least 2.
C20_WhereRulesFollowClause ==
    Returned => WhereRulesFollowClause(splitSQLStatements(content), result.Issues)

(***************************************************************************)
(* Properties of the advice list (Spec)                                     *)
(***************************************************************************)

Advised(advice, text) == \E n \in 1..Len(advice) : advice[n] = text

\* The evaluator of the engine detected a routine definition in the script
\* (AnalyzeSQLWithOptions is the only one that looks for one).
RoutineDetected(eng, runes) ==
    NormalizeEngine(eng) = EngineMySQL /\ reRoutineDefinitionMatch(runes)

AdviceFollowsSummary(advice, summary) ==
    /\ Advised(advice, "high-risk") <=> summary.ErrorCount > 0
    /\ Advised(advice, "medium-risk") <=> summary.WarningCount > 0
    /\ Advised(advice, "no-high-risk")
          <=> (summary.ErrorCount = 0 /\ summary.WarningCount = 0)
    /\ Advised(advice, "routine") <=> RoutineDetected(engine, content)
    /\ advice # <<>>

\* C21: in every report, for every engine and script, the advice list
\* holds the high-risk message exactly when errorCount > 0, the medium-risk
\* message exactly when warningCount > 0, the fallback message exactly when
\* both counts are 0, one more line exactly when a routine definition was
\* detected, and is never empty.
C21_AdviceFollowsSummary ==
    Returned => AdviceFollowsSummary(result.Advice, result.Summary)

(***************************************************************************)
(* Properties of HistoryStore.DeleteByIDs (SpecDelete)                      *)
(***************************************************************************)

\* The ids of the records of a store.
StoredIDs(store) == {store[k].ID : k \in 1..Len(store)}

\* The positive ids of a list.
ValidIDs(ids) == {ids[k] : k \in 1..Len(ids)} \cap {id \in Int : id > 0}

\* Neither GetByID nor any page of List returns a record of the ids.
NotReturned(store, ids) ==
    \A id \in ids :
        /\ GetByID(store, id).err = "ErrHistoryNotFound"
        /\ \A limit \in 0..2, offset \in 0..MaxHistoryRows :
              \A k \in 1..Len(List(store, limit, offset).items) :
                  List(store, limit, offset).items[k].ID # id

DeletedAsListed(call, store) ==
    LET removed == StoredIDs(call.before) \cap ValidIDs(call.ids)
    IN IF call.err
       THEN call.deleted = 0
       ELSE /\ store = SelectSeq(call.before, LAMBDA row : row.ID \notin ValidIDs(call.ids))
            /\ call.deleted = Cardinality(removed)
            /\ NotReturned(store, removed)
            /\ List(store, 20, 0).total = Len(call.before) - call.deleted

\* C22: DeleteByIDs ignores non-positive and duplicate ids, removes every
\* stored record whose id is listed, leaves the other records unchanged and
\* returns the number of records it removed (0 when no listed id is valid
\* or stored); List and GetByID no longer return the removed records.
C22_DeleteByIDs ==
    calls[1].pc = "returned" => DeletedAsListed(calls[1], history)

\* The call of TestHistoryStoreDeleteByIDs: two records, their ids listed
\* with a duplicate and a negative id; 2 is returned and the store is empty.
C22_Witness ==
    /\ calls[1].pc = "returned"
    /\ calls[1].ids = <<1, 2, 2, -1>>
    /\ StoredIDs(calls[1].before) = {1, 2}
    /\ calls[1].deleted = 2
    /\ history = <<>>

(***************************************************************************)
(* Properties of concurrent DeleteByIDs calls (SpecDeleteConcurrent)        *)
(***************************************************************************)

AllReturned == \A c \in Callers : calls[c].pc = "returned"

\* The sum of the numbers the calls returned.
RECURSIVE DeletedSum(_)
DeletedSum(cs) ==
    IF cs = {} THEN 0
    ELSE LET c == CHOOSE x \in cs : TRUE IN calls[c].deleted + DeletedSum(cs \ {c})

\* C30: when DeleteByIDs calls with overlapping id lists run concurrently,
\* the counts they return add up to the number of records removed from the
\* store: no record is counted by two calls.
C30_ConcurrentDeletesCountOnce ==
    (AllReturned /\ \A c \in Callers : ~calls[c].err)
        => DeletedSum(Callers) = MaxHistoryRows - Len(history)

(***************************************************************************)
(* Properties of the merged-statement case (SpecMerged)                     *)
(***************************************************************************)

\* The lines of the script the re-segmentation reads: trimmed, without the
\* blank lines and the lines that begin a line comment.
ReadLines(runes) ==
    LET trimmed == [k \in 1..Len(SplitLines(NormalizeNewlines(runes))) |->
                       TrimSpace(SplitLines(NormalizeNewlines(runes))[k])]
    IN SelectSeq(trimmed, LAMBDA line : /\ line # <<>>
                                        /\ ~HasPrefix(line, <<"-", "-">>)
                                        /\ ~HasPrefix(line, <<"#">>))

EndsStatement(line) ==
    line[Len(line)] = ";" \/ line[Len(line)] = FullwidthSemicolon

\* Line i begins a sub-statement: it is the first line, it starts with a
\* statement keyword, or the line before it ended a sub-statement.
BeginsStatement(lines, i) ==
    i = 1 \/ reStatementStartMatch(lines[i]) \/ EndsStatement(lines[i - 1])

\* The position of the sub-statement line i belongs to.
PositionOfLine(lines, i) == Cardinality({j \in 1..i : BeginsStatement(lines, j)})

\* The positions of the sub-statements that no terminator ends.
UnterminatedPositions(lines) ==
    {PositionOfLine(lines, i) :
        i \in {j \in 1..Len(lines) :
                  /\ j = Len(lines) \/ BeginsStatement(lines, j + 1)
                  /\ ~EndsStatement(lines[j])}}

\* The least element of a set of numbers.
SetMin(set) == CHOOSE x \in set : \A y \in set : x <= y

\* The statement indices the missing_statement_terminator issues list.
ListedMissing(issues) ==
    UNION {Listed(issue) : issue \in MissingTerminatorIssues(issues)}

\* Some fragment holds, at the starts of the lines of its text, two hard
\* statement keywords or one and a further statement keyword.
LineStartsShowMerge(statements) ==
    \E k \in 1..Len(statements) :
        \/ CountHardStatementStarts(TrimSpace(statements[k])) >= 2
        \/ /\ CountHardStatementStarts(TrimSpace(statements[k])) >= 1
           /\ CountStatementStarts(TrimSpace(statements[k])) >= 2

MergedCaseApplies(eng, runes) ==
    /\ IsSQLEngine(eng)
    /\ ~ContainsDirective(runes)
    /\ ~ContainsRoutineDefinition(runes)
    /\ LineStartsShowMerge(splitSQLStatements(runes))
    /\ hasLikelyMergedStatements(splitSQLStatements(runes))

ListsUnterminatedPositions(issues, positions) ==
    /\ ListedMissing(issues) = positions
    /\ \A issue \in MissingTerminatorIssues(issues) :
          issue.StatementIndex = SetMin(positions)

\* C23: for MySQL and PostgreSQL, without directive and routine, when a
\* segmented fragment holds two hard statement keywords at line starts, or
\* one and a further statement keyword, the script is segmented again by
\* lines and the missing-terminator finding lists exactly the
\* sub-statements no terminator ends, each at its position in that
\* segmentation.
C23_MergedCaseListsUnterminated ==
    (Returned /\ MergedCaseApplies(engine, content))
        => ListsUnterminatedPositions(result.Issues, UnterminatedPositions(ReadLines(content)))

(***************************************************************************)
(* Properties of parseMongoOperations (SpecMongo)                           *)
(***************************************************************************)

\* The numbers of open (, { and [ after each rune of a script, the brackets
\* inside strings and comments not counted and a closing bracket without an
\* open one ignored.
RECURSIVE OpenBrackets(_, _, _)
OpenBrackets(runes, at, k) ==
    IF k = 0 THEN <<>>
    ELSE LET Step(before) ==
                 LET last == IF before = <<>> THEN [paren |-> 0, brace |-> 0, bracket |-> 0]
                             ELSE before[k - 1]
                     Count(n, open, close) ==
                         IF at[k] # "code" THEN n
                         ELSE IF runes[k] = open THEN n + 1
                         ELSE IF runes[k] = close /\ n > 0 THEN n - 1
                         ELSE n
                 IN Append(before, [paren |-> Count(last.paren, "(", ")"),
                                    brace |-> Count(last.brace, "{", "}"),
                                    bracket |-> Count(last.bracket, "[", "]")])
         IN Step(OpenBrackets(runes, at, k - 1))

\* The places where an operation may end: a ;, a full-width semicolon or a
\* line end outside strings and comments (the line end that closes a line
\* comment included), outside all brackets.
OperationEnds(runes, at, open) ==
    {p \in 1..Len(runes) :
        /\ open[p].paren = 0 /\ open[p].brace = 0 /\ open[p].bracket = 0
        /\ \/ at[p] = "code" /\ runes[p] \in {";", FullwidthSemicolon, "\n"}
           \/ at[p] = "line" /\ runes[p] = "\n"}

\* The text of runes[from..to] without its comments, trimmed.
TextBetween(runes, at, from, to) ==
    LET read == [k \in 1..(to - from + 1) |->
                    [ch |-> runes[from + k - 1], at |-> at[from + k - 1]]]
        kept == SelectSeq(read, LAMBDA r : r.at \notin {"line", "block"})
    IN TrimSpace([k \in 1..Len(kept) |-> kept[k].ch])

\* The operations of a script whose operations end at the places ends and
\* at the end of the script.
RECURSIVE OperationsBetween(_, _, _, _)
OperationsBetween(runes, at, ends, from) ==
    LET Operation(text, terminated, fullwidth) ==
            IF text = <<>> THEN <<>>
            ELSE <<[Text |-> text, Terminated |-> terminated,
                    FullwidthTerminator |-> fullwidth]>>
        later == {p \in ends : p >= from}
        Until(p) ==
            Operation(TextBetween(runes, at, from, p - 1),
                      runes[p] \in {";", FullwidthSemicolon}, runes[p] = FullwidthSemicolon)
            \o OperationsBetween(runes, at, ends, p + 1)
    IN IF from > Len(runes) THEN <<>>
       ELSE IF later = {} THEN Operation(TextBetween(runes, at, from, Len(runes)), FALSE, FALSE)
       ELSE Until(SetMin(later))

ExpectedOperations(runes) ==
    LET Read(at) ==
            LET Counted(open) ==
                    OperationsBetween(runes, at, OperationEnds(runes, at, open), 1)
            IN Counted(OpenBrackets(runes, at, Len(runes)))
    IN Read(Reading(runes, TRUE, FALSE).at)

\* C24: parseMongoOperations ends an operation only at a ;, a full-width
\* semicolon or a line end read outside strings and comments while no (, {
\* or [ is open, or at the end of the script; an operation ended by ; or the
\* full-width semicolon is marked terminated.
C24_MongoOperationsEndOutsideBrackets ==
    pc = "parsed" => segments.operations = ExpectedOperations(NormalizeNewlines(content))

\* A call whose argument spans two lines, closed by ;: one operation,
\* terminated.
C24_Witness ==
    /\ pc = "parsed"
    /\ content = MongoParts[1] \o <<"\n">> \o MongoParts[2] \o <<";">>
    /\ Len(segments.operations) = 1
    /\ segments.operations[1].Terminated
    /\ Contains(segments.operations[1].Text, <<"\n">>)

(***************************************************************************)
(* Properties of the MongoDB missing-terminator finding (SpecMongo)         *)
(***************************************************************************)

MongoMissingIssues(issues) == IssuesOfRules(issues, {"mongo_missing_statement_terminator"})

\* The positions of the operations that neither ; nor the full-width
\* semicolon closed.
UnclosedOperations(operations) ==
    {k \in 1..Len(operations) : ~operations[k].Terminated}

MongoFindingListsUnclosed(issues, operations) ==
    /\ Len(operations) >= 2 =>
          UNION {Listed(issue) : issue \in MongoMissingIssues(issues)}
              = UnclosedOperations(operations)
    /\ Len(operations) = 1 => MongoMissingIssues(issues) = {}

\* C25: for MongoDB a script of two or more operations gets a
\* mongo_missing_statement_terminator finding that lists exactly the
\* operations neither ; nor the full-width semicolon closed, a last
\* operation without terminator included; a script of one operation gets
\* no such issue even if the operation has no terminator.
C25_MongoMissingTerminator ==
    Returned => MongoFindingListsUnclosed(result.Issues,
                                          ExpectedOperations(NormalizeNewlines(content)))

\* Three operations, the first closed by ;, the second ended by a line end,
\* the third by the end of the script: the finding lists 2 and 3.
C25_Witness ==
    /\ Returned
    /\ content = MongoParts[2] \o <<";">> \o MongoParts[2] \o <<"\n">> \o MongoParts[2]
    /\ result.Summary.StatementCount = 3
    /\ \E issue \in MongoMissingIssues(result.Issues) : Listed(issue) = {2, 3}

(***************************************************************************)
(* Properties of the transaction warning (SpecTransaction)                  *)
(***************************************************************************)

\* The words a statement begins with.
LeadingWords(statement) ==
    LET words == Fields(ToUpper(statement))
    IN [k \in 1..Len(words) |-> IF Len(words[k]) = 1 THEN words[k][1] ELSE "several runes"]

IsRiskyWrite(statement) ==
    /\ LeadingWords(statement) # <<>>
    /\ LeadingWords(statement)[1] \in {"UPDATE", "DELETE", "INSERT", "ALTER", "DROP", "TRUNCATE"}

IsTransactionStart(statement) ==
    /\ LeadingWords(statement) # <<>>
    /\ \/ LeadingWords(statement)[1] = "BEGIN"
       \/ /\ Len(LeadingWords(statement)) >= 2
          /\ SubSeq(LeadingWords(statement), 1, 2) = <<"START", "TRANSACTION">>

IsCommit(statement) ==
    LeadingWords(statement) # <<>> /\ LeadingWords(statement)[1] = "COMMIT"

\* A transaction start and a commit are present.
TransactionPairPresent(statements) ==
    /\ \E b \in 1..Len(statements) : IsTransactionStart(statements[b])
    /\ \E c \in 1..Len(statements) : IsCommit(statements[c])

\* Every risky write stands between a transaction start and a commit.
WritesEnclosed(statements) ==
    \E b, c \in 1..Len(statements) :
        /\ IsTransactionStart(statements[b])
        /\ IsCommit(statements[c])
        /\ \A w \in 1..Len(statements) : IsRiskyWrite(statements[w]) => (b < w /\ w < c)

\* The places of the risky_writes_without_transaction issues in a report.
RiskyWritesIssues(issues) ==
    {k \in 1..Len(issues) : issues[k].Rule = "risky_writes_without_transaction"}

TransactionWarningAsStated(issues, statements) ==
    /\ Cardinality(RiskyWritesIssues(issues)) <= 1
    /\ \A k \in RiskyWritesIssues(issues) :
          issues[k].Level = LevelWarning /\ issues[k].StatementIndex = 0
    /\ RiskyWritesIssues(issues) # {}
          <=> /\ Len(statements) > 1
              /\ \E w \in 1..Len(statements) : IsRiskyWrite(statements[w])
              /\ ~TransactionPairPresent(statements)
    /\ WritesEnclosed(statements) => RiskyWritesIssues(issues) = {}

\* C26: for MySQL and PostgreSQL a report holds at most one
\* risky_writes_without_transaction issue, a warning with statementIndex 0,
\* raised when the script has several statements, a risky write among them,
\* and not both a transaction start and a commit; it is not raised for a
\* script of one statement, for a script without risky write, or for a
\* script whose risky writes stand between a transaction start and a commit.
C26_TransactionWarning ==
    Returned => TransactionWarningAsStated(result.Issues, splitSQLStatements(content))

\* A transaction start and two writes without commit: the warning is raised.
C26_Witness ==
    /\ Returned
    /\ content = TransactionParts[2] \o TransactionParts[4] \o TransactionParts[4]
    /\ Cardinality(RiskyWritesIssues(result.Issues)) = 1

(***************************************************************************)
(* Properties of the assembly of the terminator issues (SpecTerminator)     *)
(***************************************************************************)

\* How many issues of a report carry one of the given rule codes.
CountOfRules(issues, rules) ==
    Cardinality({j \in IssueIndices(issues) : issues[j].Rule \in rules})

\* The indices of a message are in ascending order, none repeated.
Ascending(indices) ==
    \A j, k \in 1..Len(indices) : j < k => indices[j] < indices[k]

\* The fragments the positions of a terminator issue count: the operations
\* of parseMongoOperations for MongoDB; for MySQL and PostgreSQL the
\* statements of splitSQLStatements when only the final statement is
\* examined, and the fragments of the line-start split otherwise.
FragmentTexts(eng, runes, rule) ==
    LET Texts(detailed) == [k \in 1..Len(detailed) |-> detailed[k].Text]
    IN IF ~IsSQLEngine(eng) THEN Texts(parseMongoOperations(runes))
       ELSE IF rule = "missing_statement_terminator"
               /\ ~hasLikelyMergedStatements(splitSQLStatements(runes))
       THEN splitSQLStatements(runes)
       ELSE Texts(splitSQLByLineStartHeuristicDetailed(runes))

\* The texts at the positions a message lists, joined by newlines.
TextsJoined(texts, indices) ==
    JoinLines([k \in 1..Len(indices) |-> TrimSpace(texts[indices[k]])])

\* One terminator issue is assembled as stated from the statements it
\* lists.
AssembledFromListed(issue, texts) ==
    /\ Len(issue.Message) >= 1
    /\ Ascending(issue.Message)
    /\ issue.StatementIndex = SetMin(Listed(issue))
    /\ Listed(issue) \subseteq 1..Len(texts)
    /\ issue.Statement = TextsJoined(texts, issue.Message)

TerminatorIssuesAssembled(eng, runes, issues) ==
    /\ CountOfRules(issues, TerminatorRulesMissing) <= 1
    /\ CountOfRules(issues, TerminatorRuleFullwidth) <= 1
    /\ \A j \in IssueIndices(issues) :
           issues[j].Rule \in TerminatorRulesMissing \cup TerminatorRuleFullwidth =>
               AssembledFromListed(issues[j], FragmentTexts(eng, runes, issues[j].Rule))

\* C27: in every report there is at most one missing-terminator issue and
\* at most one fullwidth_statement_terminator issue, however many
\* statements are affected; the issue's statementIndex is the smallest
\* affected index, its message lists the affected indices in ascending
\* order (and nothing of the statements' text), and its snippet is the
\* affected statements' texts joined by newlines in the same order.
C27_OneIssuePerTerminatorRule ==
    Returned => TerminatorIssuesAssembled(engine, content, result.Issues)

\* A report with a full-width issue and a missing-terminator issue that
\* lists two statements.
C27_Witness ==
    /\ Returned
    /\ \E m \in IssuesOfRules(result.Issues, TerminatorRulesMissing) :
           Cardinality(Listed(m)) >= 2
    /\ IssuesOfRules(result.Issues, TerminatorRuleFullwidth) # {}

(***************************************************************************)
(* Properties of the rule catalogs (Spec)                                   *)
(***************************************************************************)

\* The catalog defines the code of the issue with the level of the issue.
DefinedBy(catalog, issue) ==
    \E k \in 1..Len(catalog) :
        catalog[k].Code = issue.Rule /\ catalog[k].Level = issue.Level

\* The levels a catalog gives a code.
LevelsOf(catalog, code) ==
    {catalog[k].Level : k \in {j \in 1..Len(catalog) : catalog[j].Code = code}}

IssuesFollowCatalog(catalog, issues) ==
    \A j \in IssueIndices(issues) :
        /\ DefinedBy(catalog, issues[j])
        /\ LevelsOf(catalog, issues[j].Rule) = {issues[j].Level}

\* C28: for every engine and script, every issue in the report of
\* AnalyzeByEngine carries a rule code that the catalog RulesForEngine
\* returns for the same engine defines, with the severity the catalog gives
\* that code; no issue carries a code that only another engine's catalog
\* defines.
C28_IssuesFollowCatalog ==
    Returned => IssuesFollowCatalog(RulesForEngineCatalog(engine), result.Issues)

\* A PostgreSQL report with an issue whose code the MySQL catalog does not
\* define, next to one whose code both catalogs define.
C28_Witness ==
    /\ Returned
    /\ NormalizeEngine(engine) = EnginePostgreSQL
    /\ \E j, k \in IssueIndices(result.Issues) :
           /\ LevelsOf(BuiltInRules, result.Issues[j].Rule) = {}
           /\ LevelsOf(BuiltInRules, result.Issues[k].Rule) # {}

(***************************************************************************)
(* Properties of the lexer modes of the three scans (SpecScan)              *)
(***************************************************************************)

ModeNames ==
    {"inSingleQuote", "inDoubleQuote", "inBacktick", "inLineComment", "inBlockComment"}

\* The modes that are active in the locals of a scan.
ActiveModes(st) == {m \in ModeNames : st[m]}

\* The mode the rune at i opens when it is read in the neutral state.
OpenedAt(scanner, runes, i) ==
    LET ch == runes[i]
        next == IF i + 1 <= Len(runes) THEN runes[i + 1] ELSE NoRune
    IN IF ch = "'" THEN {"inSingleQuote"}
       ELSE IF ch = "\"" THEN {"inDoubleQuote"}
       ELSE IF ch = Backquote THEN {"inBacktick"}
       ELSE IF ch = "/" /\ next = "*" THEN {"inBlockComment"}
       ELSE IF scanner = "parseMongoOperations" /\ ch = "/" /\ next = "/"
       THEN {"inLineComment"}
       ELSE IF scanner # "parseMongoOperations" /\ (ch = "#" \/ (ch = "-" /\ next = "-"))
       THEN {"inLineComment"}
       ELSE {}

\* The last pass read the opener of a mode while another mode was active.
ReadOpenerInOtherMode(scanner, runes, before, after) ==
    /\ after.i > before.i
    /\ ActiveModes(before) # {}
    /\ OpenedAt(scanner, runes, before.i) # {}
    /\ OpenedAt(scanner, runes, before.i) \cap ActiveModes(before) = {}

AtMostOneMode(st) == Cardinality(ActiveModes(st)) <= 1

EnteredFromNeutralOnly(before, after) ==
    (ActiveModes(after) # {} /\ ActiveModes(after) # ActiveModes(before)) =>
        ActiveModes(before) = {}

OpenersIgnoredInOtherMode(scanner, runes, before, after) ==
    ReadOpenerInOtherMode(scanner, runes, before, after) =>
        ActiveModes(after) = ActiveModes(before)

DepthsNotNegative(scanner, st) ==
    scanner = "parseMongoOperations" =>
        st.parenDepth >= 0 /\ st.braceDepth >= 0 /\ st.bracketDepth >= 0

\* C29: at every step of the character scans of splitSQLStatements,
\* parseMongoOperations and stripCommentsAndStrings at most one of the
\* modes single quote, double quote, back quote, line comment and block
\* comment is active; a mode is entered only from the neutral state, and a
\* quote or comment opener read while another mode is active does not
\* change the mode; in parseMongoOperations the paren, brace and bracket
\* depths are never negative.
C29_LexerModes ==
    /\ AtMostOneMode(segments.scan)
    /\ EnteredFromNeutralOnly(segments.before, segments.scan)
    /\ OpenersIgnoredInOtherMode(segments.scanner, content, segments.before, segments.scan)
    /\ DepthsNotNegative(segments.scanner, segments.scan)

\* parseMongoOperations has read a closing bracket at depth 0 inside no
\* mode, then the opener of a mode, then the opener of another mode.
C29_Witness ==
    /\ segments.scanner = "parseMongoOperations"
    /\ Len(content) >= 1 /\ content[1] = ")"
    /\ ReadOpenerInOtherMode(segments.scanner, content, segments.before, segments.scan)
    /\ ActiveModes(segments.scan) = ActiveModes(segments.before)

====
